---------------------------- MODULE Spec2Model ----------------------------
(***************************************************************************)
(* StudyBuddy backend: the Store (document-store backend MongoStore and    *)
(* in-process backend InMemoryStore) and the notification Worker that      *)
(* scans due tasks, due events and stale unread notifications.             *)
(*                                                                         *)
(* Time is counted in clock ticks.  time.Now() has sub-second resolution;  *)
(* RFC3339 text has a resolution of one second (Second ticks).  Durations  *)
(* are scaled down: "1h" is Hour ticks and "24h" is Day ticks, both whole  *)
(* seconds, Hour < Day.  A time string is modelled by the instant it       *)
(* denotes (strings of one layout and zone order as their instants do).    *)
(***************************************************************************)
EXTENDS Integers, Sequences, FiniteSets, TLC

\* ------------------------------------------------------------- bounds
Second == 2       \* clock ticks per whole second
MaxTime == 5      \* the clock stops here
MaxFails == 1     \* transient store failures explored per run
MaxDocs == 1      \* documents per work-item collection
MaxRuns == 2      \* scans in a row that are counted

Hour == Second            \* ParseDuration("1h"), scaled
Day == 2 * Second         \* ParseDuration("24h"), scaled

NoTime == -1              \* CreatedAt == ""
BadDate == -2             \* a DueDate/DueTime pair time.Parse rejects

WorkIds == {"w1"}
UserIds == {"u1"}
Uuids == <<"n1", "n2", "n3", "n4", "n5", "n6">>
DueChoices == {Day, BadDate}

\* ------------------------------------------------------------- helpers
\* index of the first element of s from i on that satisfies Test, 0 if none
SelectFirst(s, i, Test(_)) ==
    LET hits == {j \in i..Len(s) : Test(s[j])}
    IN IF hits = {} THEN 0 ELSE CHOOSE j \in hits : \A k \in hits : j <= k

RemoveAt(s, i) == SubSeq(s, 1, i - 1) \o SubSeq(s, i + 1, Len(s))

Range(s) == {s[i] : i \in 1..Len(s)}

\* ------------------------------------------------------------- time
\* time.Time.Format(time.RFC3339): whole seconds, the fraction is dropped
FormatRFC3339(t) == t - (t % Second)

\* time.ParseDuration on the strings the worker passes
ParseDuration(duration) ==
    IF duration = "24h" THEN [err |-> FALSE, d |-> Day]
    ELSE IF duration = "1h" THEN [err |-> FALSE, d |-> Hour]
    ELSE [err |-> TRUE, d |-> 0]

\* time.Parse("2006-01-02 15:04", date + " " + time)
ParseDue(due) ==
    IF due = BadDate THEN [err |-> TRUE, t |-> 0]
    ELSE [err |-> FALSE, t |-> due]

After(t, u) == t > u
Before(t, u) == t < u

\* uuid.New().String(): an ID no stored document uses
NewUuid(used) ==
    LET i == SelectFirst(Uuids, 1, LAMBDA x : x \notin used)
    IN Uuids[i]

\* ------------------------------------------------------------- MongoStore
\* Every operation takes ok: FALSE is a driver error (timeout, connection),
\* after which the collection is as it was.
NotFound == "ErrNotFound"
Transient == "transient"
Invalid == "invalid"
Nil == "nil"

EmptyDB ==
    [tasks |-> <<>>, courses |-> <<>>, events |-> <<>>, users |-> <<>>,
     notifications |-> <<>>]

NoNotification ==
    [id |-> "", userId |-> "", message |-> <<>>, type |-> "", referenceId |-> "",
     read |-> FALSE, createdAt |-> NoTime, emailed |-> FALSE]
NoUser ==
    [id |-> "", name |-> "", email |-> "", password |-> "",
     isVerified |-> FALSE, verificationToken |-> ""]
NoTask == [id |-> "", userId |-> "", title |-> "", completed |-> FALSE, due |-> BadDate]

MongoGetTask(db, id, ok) ==
    LET i == SelectFirst(db.tasks, 1, LAMBDA t : t.id = id)
    IN IF ~ok THEN [st |-> db, err |-> Transient, val |-> NoTask]
       ELSE IF i = 0 THEN [st |-> db, err |-> NotFound, val |-> NoTask]
       ELSE [st |-> db, err |-> Nil, val |-> db.tasks[i]]

MongoCreateTask(db, t, ok) ==
    LET t1 == IF t.id = "" THEN [t EXCEPT !.id = NewUuid({x.id : x \in Range(db.tasks)})]
              ELSE t
    IN [st |-> IF ok THEN [db EXCEPT !.tasks = Append(@, t1)] ELSE db,
        err |-> Nil, val |-> t1]

MongoUpdateTask(db, id, t, ok) ==
    LET t1 == [t EXCEPT !.id = id]
        i == SelectFirst(db.tasks, 1, LAMBDA x : x.id = id)
    IN IF ~ok THEN [st |-> db, err |-> Transient, val |-> NoTask]
       ELSE IF i = 0 THEN [st |-> db, err |-> NotFound, val |-> NoTask]
       ELSE [st |-> [db EXCEPT !.tasks[i] = t1], err |-> Nil, val |-> t1]

MongoDeleteTask(db, id, ok) ==
    LET i == SelectFirst(db.tasks, 1, LAMBDA x : x.id = id)
    IN IF ~ok THEN [st |-> db, err |-> Transient, val |-> NoTask]
       ELSE IF i = 0 THEN [st |-> db, err |-> NotFound, val |-> NoTask]
       ELSE [st |-> [db EXCEPT !.tasks = RemoveAt(@, i)], err |-> Nil, val |-> NoTask]

MongoCreateEvent(db, e, ok) ==
    LET e1 == IF e.id = "" THEN [e EXCEPT !.id = NewUuid({x.id : x \in Range(db.events)})]
              ELSE e
    IN [st |-> IF ok THEN [db EXCEPT !.events = Append(@, e1)] ELSE db,
        err |-> Nil, val |-> e1]

MongoGetUser(db, id, ok) ==
    LET i == SelectFirst(db.users, 1, LAMBDA u : u.id = id)
    IN IF ~ok THEN [st |-> db, err |-> Transient, val |-> NoUser]
       ELSE IF i = 0 THEN [st |-> db, err |-> NotFound, val |-> NoUser]
       ELSE [st |-> db, err |-> Nil, val |-> db.users[i]]

MongoCreateUser(db, u, ok) ==
    LET u1 == IF u.id = "" THEN [u EXCEPT !.id = NewUuid({x.id : x \in Range(db.users)})]
              ELSE u
    IN [st |-> IF ok THEN [db EXCEPT !.users = Append(@, u1)] ELSE db,
        err |-> Nil, val |-> u1]

MongoMarkUserVerified(db, id, ok) ==
    LET i == SelectFirst(db.users, 1, LAMBDA u : u.id = id)
    IN IF ~ok THEN [st |-> db, err |-> Transient, val |-> NoUser]
       ELSE IF i = 0 THEN [st |-> db, err |-> NotFound, val |-> NoUser]
       ELSE [st |-> [db EXCEPT !.users[i].isVerified = TRUE,
                               !.users[i].verificationToken = ""],
             err |-> Nil, val |-> NoUser]

\* the fields UpdateUser puts into its $set document: the non-zero ones
UpdateFields(u) ==
    {f \in {"name", "email", "verificationToken"} : u[f] # ""}
        \cup (IF u.isVerified THEN {"isVerified"} ELSE {})

\* the user x after $set of the fields of u named in fs
SetFields(x, u, fs) == [f \in DOMAIN x |-> IF f \in fs THEN u[f] ELSE x[f]]

MongoUpdateUser(db, id, u, ok) ==
    LET fs == UpdateFields(u)
        i == SelectFirst(db.users, 1, LAMBDA x : x.id = id)
    IN IF fs = {} THEN [st |-> db, err |-> Nil, val |-> NoUser]
       ELSE IF ~ok THEN [st |-> db, err |-> Transient, val |-> NoUser]
       ELSE IF i = 0 THEN [st |-> db, err |-> NotFound, val |-> NoUser]
       ELSE LET db1 == [db EXCEPT !.users[i] = SetFields(@, u, fs)]
            IN [st |-> db1, err |-> Nil, val |-> db1.users[i]]

\* variant: the new hash is written over every field that holds a string
MongoUpdateUserPasswordEverywhere(db, id, hashedPassword, ok) ==
    LET i == SelectFirst(db.users, 1, LAMBDA x : x.id = id)
    IN IF ~ok THEN [st |-> db, err |-> Transient, val |-> NoUser]
       ELSE IF i = 0 THEN [st |-> db, err |-> NotFound, val |-> NoUser]
       ELSE LET db1 == [db EXCEPT !.users[i].password = hashedPassword,
                                  !.users[i].verificationToken = hashedPassword]
            IN [st |-> db1, err |-> Nil, val |-> db1.users[i]]

MongoUpdateUserPassword(db, id, hashedPassword, ok) ==
    LET i == SelectFirst(db.users, 1, LAMBDA x : x.id = id)
    IN IF ~ok THEN [st |-> db, err |-> Transient, val |-> NoUser]
       ELSE IF i = 0 THEN [st |-> db, err |-> NotFound, val |-> NoUser]
       ELSE LET db1 == [db EXCEPT !.users[i].password = hashedPassword]
            IN [st |-> db1, err |-> Nil, val |-> db1.users[i]]

\* GetUserByEmail returns (User, bool): err is Nil for true, NotFound for
\* false; a driver error gives false as well
MongoGetUserByEmail(db, email, ok) ==
    LET i == SelectFirst(db.users, 1, LAMBDA x : x.email = email)
    IN IF ~ok \/ i = 0 THEN {[st |-> db, err |-> NotFound, val |-> NoUser]}
       ELSE {[st |-> db, err |-> Nil, val |-> db.users[i]]}

MongoCreateCourse(db, c, ok) ==
    LET c1 == IF c.id = "" THEN [c EXCEPT !.id = NewUuid({x.id : x \in Range(db.courses)})]
              ELSE c
    IN [st |-> IF ok THEN [db EXCEPT !.courses = Append(@, c1)] ELSE db,
        err |-> Nil, val |-> c1]

MongoGetNotificationByReferenceID(db, refID, nType, ok) ==
    LET i == SelectFirst(db.notifications, 1,
                         LAMBDA n : n.referenceId = refID /\ n.type = nType)
    IN IF ~ok THEN [st |-> db, err |-> Transient, val |-> NoNotification]
       ELSE IF i = 0 THEN [st |-> db, err |-> NotFound, val |-> NoNotification]
       ELSE [st |-> db, err |-> Nil, val |-> db.notifications[i]]

\* variant: the work item the notification is about is marked completed
MongoCreateNotificationCompleting(db, n, now, ok) ==
    LET n1 == [n EXCEPT !.id = IF @ = "" THEN NewUuid({x.id : x \in Range(db.notifications)})
                               ELSE @,
                        !.createdAt = IF @ = NoTime THEN FormatRFC3339(now) ELSE @]
        done == [i \in DOMAIN db.tasks |->
                   IF db.tasks[i].id = n.referenceId THEN [db.tasks[i] EXCEPT !.completed = TRUE]
                   ELSE db.tasks[i]]
    IN [st |-> IF ok THEN [db EXCEPT !.notifications = Append(@, n1), !.tasks = done] ELSE db,
        err |-> Nil, val |-> n1]

MongoCreateNotification(db, n, now, ok) ==
    LET n1 == IF n.id = ""
              THEN [n EXCEPT !.id = NewUuid({x.id : x \in Range(db.notifications)})]
              ELSE n
        n2 == IF n1.createdAt = NoTime
              THEN [n1 EXCEPT !.createdAt = FormatRFC3339(now)]
              ELSE n1
    IN [st |-> IF ok THEN [db EXCEPT !.notifications = Append(@, n2)] ELSE db,
        err |-> Nil, val |-> n2]

\* a variant that writes the whole document back from a fresh value with only
\* read set, which loses emailed
\* variant: a notification that was read is removed
MongoMarkNotificationAsReadDeleting(db, id, ok) ==
    LET i == SelectFirst(db.notifications, 1, LAMBDA n : n.id = id)
    IN IF ~ok THEN [st |-> db, err |-> Transient, val |-> NoNotification]
       ELSE IF i = 0 THEN [st |-> db, err |-> NotFound, val |-> NoNotification]
       ELSE [st |-> [db EXCEPT !.notifications = RemoveAt(@, i)],
             err |-> Nil, val |-> NoNotification]

MongoMarkNotificationAsReadReplacing(db, id, ok) ==
    LET i == SelectFirst(db.notifications, 1, LAMBDA n : n.id = id)
    IN IF ~ok THEN [st |-> db, err |-> Transient, val |-> NoNotification]
       ELSE IF i = 0 THEN [st |-> db, err |-> NotFound, val |-> NoNotification]
       ELSE [st |-> [db EXCEPT !.notifications[i].read = TRUE,
                               !.notifications[i].emailed = FALSE],
             err |-> Nil, val |-> NoNotification]

MongoMarkNotificationAsRead(db, id, ok) ==
    LET i == SelectFirst(db.notifications, 1, LAMBDA n : n.id = id)
    IN IF ~ok THEN [st |-> db, err |-> Transient, val |-> NoNotification]
       ELSE IF i = 0 THEN [st |-> db, err |-> NotFound, val |-> NoNotification]
       ELSE [st |-> [db EXCEPT !.notifications[i].read = TRUE],
             err |-> Nil, val |-> NoNotification]

\* a variant whose cutoff keeps the sub-second part of time.Now()
MongoGetUnreadNotificationsExactCutoff(db, duration, now, ok) ==
    LET p == ParseDuration(duration)
        cutoff == now - p.d
    IN IF p.err THEN [st |-> db, err |-> Invalid, val |-> <<>>]
       ELSE IF ~ok THEN [st |-> db, err |-> Transient, val |-> <<>>]
       ELSE [st |-> db, err |-> Nil,
             val |-> SelectSeq(db.notifications,
                               LAMBDA n : /\ n.read = FALSE
                                          /\ n.emailed = FALSE
                                          /\ n.createdAt < cutoff)]

\* a variant whose filter leaves out `emailed: false`
MongoGetUnreadNotificationsAnyEmailed(db, duration, now, ok) ==
    LET p == ParseDuration(duration)
        cutoff == FormatRFC3339(now - p.d)
    IN IF p.err THEN [st |-> db, err |-> Invalid, val |-> <<>>]
       ELSE IF ~ok THEN [st |-> db, err |-> Transient, val |-> <<>>]
       ELSE [st |-> db, err |-> Nil,
             val |-> SelectSeq(db.notifications,
                               LAMBDA n : n.read = FALSE /\ n.createdAt < cutoff)]

MongoGetUnreadNotificationsOlderThan(db, duration, now, ok) ==
    LET p == ParseDuration(duration)
        cutoff == FormatRFC3339(now - p.d)
    IN IF p.err THEN [st |-> db, err |-> Invalid, val |-> <<>>]
       ELSE IF ~ok THEN [st |-> db, err |-> Transient, val |-> <<>>]
       ELSE [st |-> db, err |-> Nil,
             val |-> SelectSeq(db.notifications,
                               LAMBDA n : /\ n.read = FALSE
                                          /\ n.emailed = FALSE
                                          /\ n.createdAt < cutoff)]

\* a variant whose filter matches no document: UpdateOne reports no error
\* variant: the flag is inverted, not set
MongoMarkNotificationAsEmailedFlipping(db, id, ok) ==
    LET i == SelectFirst(db.notifications, 1, LAMBDA n : n.id = id)
    IN IF ~ok THEN [st |-> db, err |-> Transient, val |-> NoNotification]
       ELSE IF i = 0 THEN [st |-> db, err |-> Nil, val |-> NoNotification]
       ELSE [st |-> [db EXCEPT !.notifications[i].emailed = ~@], err |-> Nil,
             val |-> NoNotification]

MongoMarkNotificationAsEmailedNoMatch(db, id, ok) ==
    IF ~ok THEN [st |-> db, err |-> Transient, val |-> NoNotification]
    ELSE [st |-> db, err |-> Nil, val |-> NoNotification]

MongoMarkNotificationAsEmailed(db, id, ok) ==
    LET i == SelectFirst(db.notifications, 1, LAMBDA n : n.id = id)
    IN IF ~ok THEN [st |-> db, err |-> Transient, val |-> NoNotification]
       ELSE IF i = 0 THEN [st |-> db, err |-> Nil, val |-> NoNotification]
       ELSE [st |-> [db EXCEPT !.notifications[i].emailed = TRUE],
             err |-> Nil, val |-> NoNotification]

MongoGetTasksDueIn(db, duration, now, ok) ==
    LET p == ParseDuration(duration)
        target == now + p.d
        InRange(t) == LET due == ParseDue(t.due)
                      IN ~due.err /\ After(due.t, now) /\ Before(due.t, target)
    IN IF p.err THEN [st |-> db, err |-> Invalid, val |-> <<>>]
       ELSE IF ~ok THEN [st |-> db, err |-> Transient, val |-> <<>>]
       ELSE [st |-> db, err |-> Nil,
             val |-> SelectSeq(db.tasks, LAMBDA t : t.completed = FALSE /\ InRange(t))]

MongoGetEventsStartingIn(db, duration, now, ok) ==
    LET p == ParseDuration(duration)
        target == now + p.d
        InRange(e) == LET start == ParseDue(e.due)
                      IN ~start.err /\ After(start.t, now) /\ Before(start.t, target)
    IN IF p.err THEN [st |-> db, err |-> Invalid, val |-> <<>>]
       ELSE IF ~ok THEN [st |-> db, err |-> Transient, val |-> <<>>]
       ELSE [st |-> db, err |-> Nil, val |-> SelectSeq(db.events, InRange)]

\* ------------------------------------------------------------- InMemoryStore
\* A map is kept as a sequence with one entry per key; the order of the
\* entries is not observable (Go ranges over a map in no fixed order).
MemPut(col, x) ==
    LET i == SelectFirst(col, 1, LAMBDA y : y.id = x.id)
    IN IF i = 0 THEN Append(col, x) ELSE [col EXCEPT ![i] = x]

MemGetTask(m, id) ==
    LET i == SelectFirst(m.tasks, 1, LAMBDA t : t.id = id)
    IN IF i = 0 THEN [st |-> m, err |-> NotFound, val |-> NoTask]
       ELSE [st |-> m, err |-> Nil, val |-> m.tasks[i]]

MemCreateTask(m, t) ==
    [st |-> [m EXCEPT !.tasks = MemPut(@, t)], err |-> Nil, val |-> t]

MemUpdateTask(m, id, t) ==
    LET i == SelectFirst(m.tasks, 1, LAMBDA x : x.id = id)
        t1 == [t EXCEPT !.id = id]
    IN IF i = 0 THEN [st |-> m, err |-> NotFound, val |-> NoTask]
       ELSE [st |-> [m EXCEPT !.tasks[i] = t1], err |-> Nil, val |-> t1]

MemDeleteTask(m, id) ==
    LET i == SelectFirst(m.tasks, 1, LAMBDA x : x.id = id)
    IN IF i = 0 THEN [st |-> m, err |-> NotFound, val |-> NoTask]
       ELSE [st |-> [m EXCEPT !.tasks = RemoveAt(@, i)], err |-> Nil, val |-> NoTask]

MemCreateEvent(m, e) ==
    [st |-> [m EXCEPT !.events = MemPut(@, e)], err |-> Nil, val |-> e]

MemGetUser(m, id) ==
    LET i == SelectFirst(m.users, 1, LAMBDA u : u.id = id)
    IN IF i = 0 THEN [st |-> m, err |-> NotFound, val |-> NoUser]
       ELSE [st |-> m, err |-> Nil, val |-> m.users[i]]

MemCreateUser(m, u) ==
    [st |-> [m EXCEPT !.users = MemPut(@, u)], err |-> Nil, val |-> u]

\* variant: the token is kept
MemMarkUserVerifiedKeepingToken(m, id) ==
    LET i == SelectFirst(m.users, 1, LAMBDA u : u.id = id)
    IN IF i = 0 THEN [st |-> m, err |-> NotFound, val |-> NoUser]
       ELSE [st |-> [m EXCEPT !.users[i].isVerified = TRUE], err |-> Nil, val |-> NoUser]

MemMarkUserVerified(m, id) ==
    LET i == SelectFirst(m.users, 1, LAMBDA u : u.id = id)
    IN IF i = 0 THEN [st |-> m, err |-> NotFound, val |-> NoUser]
       ELSE [st |-> [m EXCEPT !.users[i].isVerified = TRUE,
                              !.users[i].verificationToken = ""],
             err |-> Nil, val |-> NoUser]

MemUpdateUser(m, id, u) ==
    LET i == SelectFirst(m.users, 1, LAMBDA x : x.id = id)
    IN IF i = 0 THEN [st |-> m, err |-> NotFound, val |-> NoUser]
       ELSE LET m1 == [m EXCEPT !.users[i] = SetFields(@, u, UpdateFields(u))]
            IN [st |-> m1, err |-> Nil, val |-> m1.users[i]]

MemUpdateUserPassword(m, id, hashedPassword) ==
    LET i == SelectFirst(m.users, 1, LAMBDA x : x.id = id)
    IN IF i = 0 THEN [st |-> m, err |-> NotFound, val |-> NoUser]
       ELSE IF hashedPassword = "" THEN [st |-> m, err |-> Nil, val |-> NoUser]
       ELSE LET m1 == [m EXCEPT !.users[i].password = hashedPassword]
            IN [st |-> m1, err |-> Nil, val |-> m1.users[i]]

\* a range over the map: any entry with that email
MemGetUserByEmail(m, email) ==
    LET hits == {u \in Range(m.users) : u.email = email}
    IN IF hits = {} THEN {[st |-> m, err |-> NotFound, val |-> NoUser]}
       ELSE {[st |-> m, err |-> Nil, val |-> u] : u \in hits}

MemCreateCourse(m, c) ==
    [st |-> [m EXCEPT !.courses = MemPut(@, c)], err |-> Nil, val |-> c]

MemGetNotificationByReferenceID(m, refID, nType) ==
    [st |-> m, err |-> NotFound, val |-> NoNotification]

MemCreateNotification(m, n) == [st |-> m, err |-> Nil, val |-> n]

MemMarkNotificationAsRead(m, id) == [st |-> m, err |-> Nil, val |-> NoNotification]

MemGetUnreadNotificationsOlderThan(m, duration) == [st |-> m, err |-> Nil, val |-> <<>>]

MemMarkNotificationAsEmailed(m, id) == [st |-> m, err |-> Nil, val |-> NoNotification]

MemGetTasksDueIn(m, duration) == [st |-> m, err |-> Nil, val |-> <<>>]

MemGetEventsStartingIn(m, duration) == [st |-> m, err |-> Nil, val |-> <<>>]

\* GetUserByVerificationToken: the outcomes the call can have.  FindOne gives
\* the first matching document; a range over a Go map gives any matching entry.
MongoGetUserByVerificationToken(db, token, ok) ==
    LET i == SelectFirst(db.users, 1, LAMBDA u : u.verificationToken = token)
    IN IF ~ok THEN {[st |-> db, err |-> Transient, val |-> NoUser]}
       ELSE IF i = 0 THEN {[st |-> db, err |-> NotFound, val |-> NoUser]}
       ELSE {[st |-> db, err |-> Nil, val |-> db.users[i]]}

MemGetUserByVerificationToken(m, token) ==
    LET hits == {u \in Range(m.users) : u.verificationToken = token}
    IN IF hits = {} THEN {[st |-> m, err |-> NotFound, val |-> NoUser]}
       ELSE {[st |-> m, err |-> Nil, val |-> u] : u \in hits}

\* ------------------------------------------------------------- Store
\* The Store interface value the worker and the handlers hold: one backend,
\* fixed when the process starts.
StoreGetTask(b, st, id, ok) ==
    IF b = "mongo" THEN MongoGetTask(st, id, ok) ELSE MemGetTask(st, id)
StoreCreateTask(b, st, t, ok) ==
    IF b = "mongo" THEN MongoCreateTask(st, t, ok) ELSE MemCreateTask(st, t)
StoreUpdateTask(b, st, id, t, ok) ==
    IF b = "mongo" THEN MongoUpdateTask(st, id, t, ok) ELSE MemUpdateTask(st, id, t)
StoreDeleteTask(b, st, id, ok) ==
    IF b = "mongo" THEN MongoDeleteTask(st, id, ok) ELSE MemDeleteTask(st, id)
StoreCreateEvent(b, st, e, ok) ==
    IF b = "mongo" THEN MongoCreateEvent(st, e, ok) ELSE MemCreateEvent(st, e)
StoreGetUser(b, st, id, ok) ==
    IF b = "mongo" THEN MongoGetUser(st, id, ok) ELSE MemGetUser(st, id)
StoreCreateUser(b, st, u, ok) ==
    IF b = "mongo" THEN MongoCreateUser(st, u, ok) ELSE MemCreateUser(st, u)
StoreGetUserByVerificationToken(b, st, token, ok) ==
    IF b = "mongo" THEN MongoGetUserByVerificationToken(st, token, ok)
    ELSE MemGetUserByVerificationToken(st, token)
StoreMarkUserVerified(b, st, id, ok) ==
    IF b = "mongo" THEN MongoMarkUserVerified(st, id, ok) ELSE MemMarkUserVerified(st, id)
StoreUpdateUser(b, st, id, u, ok) ==
    IF b = "mongo" THEN MongoUpdateUser(st, id, u, ok) ELSE MemUpdateUser(st, id, u)
StoreUpdateUserPassword(b, st, id, hashedPassword, ok) ==
    IF b = "mongo" THEN MongoUpdateUserPassword(st, id, hashedPassword, ok)
    ELSE MemUpdateUserPassword(st, id, hashedPassword)
StoreGetUserByEmail(b, st, email, ok) ==
    IF b = "mongo" THEN MongoGetUserByEmail(st, email, ok) ELSE MemGetUserByEmail(st, email)
StoreCreateCourse(b, st, c, ok) ==
    IF b = "mongo" THEN MongoCreateCourse(st, c, ok) ELSE MemCreateCourse(st, c)
StoreGetNotificationByReferenceID(b, st, refID, nType, ok) ==
    IF b = "mongo" THEN MongoGetNotificationByReferenceID(st, refID, nType, ok)
    ELSE MemGetNotificationByReferenceID(st, refID, nType)
StoreCreateNotification(b, st, n, now, ok) ==
    IF b = "mongo" THEN MongoCreateNotification(st, n, now, ok)
    ELSE MemCreateNotification(st, n)
StoreMarkNotificationAsRead(b, st, id, ok) ==
    IF b = "mongo" THEN MongoMarkNotificationAsRead(st, id, ok)
    ELSE MemMarkNotificationAsRead(st, id)
StoreGetUnreadNotificationsOlderThan(b, st, duration, now, ok) ==
    IF b = "mongo" THEN MongoGetUnreadNotificationsOlderThan(st, duration, now, ok)
    ELSE MemGetUnreadNotificationsOlderThan(st, duration)
StoreMarkNotificationAsEmailed(b, st, id, ok) ==
    IF b = "mongo" THEN MongoMarkNotificationAsEmailed(st, id, ok)
    ELSE MemMarkNotificationAsEmailed(st, id)
StoreGetTasksDueIn(b, st, duration, now, ok) ==
    IF b = "mongo" THEN MongoGetTasksDueIn(st, duration, now, ok)
    ELSE MemGetTasksDueIn(st, duration)
StoreGetEventsStartingIn(b, st, duration, now, ok) ==
    IF b = "mongo" THEN MongoGetEventsStartingIn(st, duration, now, ok)
    ELSE MemGetEventsStartingIn(st, duration)

\* ------------------------------------------------------------- the process
VARIABLES
    backend,    \* "mongo" or "mem": the backend NewStore returned
    store,      \* the backend's collections
    clock,      \* time.Now(), in ticks
    pc,         \* where the worker goroutine stands
    batch,      \* the items of the running scan not yet handled
    fails,      \* store calls that failed so far
    marked,     \* history: IDs a MarkNotificationAsEmailed call succeeded for
    trace,      \* history: what the scans of this cycle did, step by step
    retry,      \* history: IDs whose latest email attempt failed
    sent,       \* history: IDs a Notifier call succeeded for
    runs,       \* history: per kind, scans in a row that found the item due
    dbs,        \* two stores side by side, one per backend, given the same calls
    outs,       \* what the last call returned, per backend
    last,       \* history: the latest Store call, its arguments and its result
    main,       \* where func main stands; "none" in a serverless process, which has none
    once,       \* server.Once: whether Do has run Setup
    loops,      \* the goroutines Worker.Start launched: ticker channel and position
    reqs        \* the requests in flight: handler, position and locals

vars == <<backend, store, clock, pc, batch, fails, marked, trace, retry, sent, runs, dbs, outs,
          last, main, once, loops, reqs>>
hist == <<marked, trace, retry, sent, runs>>
proc == <<main, once, loops, reqs>>
par == <<dbs, outs, last, proc>>

\* a process whose Setup has run: no request in flight; the worker goroutine
\* is the one pc and batch follow
Served == main = "serving" /\ once = FALSE /\ loops = <<>> /\ reqs = <<>>

NoCall == [b \in {"mongo", "mem"} |-> [err |-> Nil, val |-> {}]]
NoLast == [op |-> "none"]

Backends == {"mongo", "mem"}
Kinds == {"TASK_DUE", "EVENT_START"}

\* the outcomes a store call can have after k failures: a driver error only
\* against MongoDB
OutcomesAt(k) == {TRUE} \cup (IF backend = "mongo" /\ k < MaxFails THEN {FALSE} ELSE {})
Outcomes == OutcomesAt(fails)
Charge(k, ok) == IF ok THEN k ELSE k + 1

Init ==
    /\ backend \in Backends
    /\ store = EmptyDB
    /\ clock = 0
    /\ pc = "idle"
    /\ batch = <<>>
    /\ fails = 0
    /\ marked = {}
    /\ trace = <<>>
    /\ retry = {}
    /\ sent = {}
    /\ runs = [k \in Kinds |-> 0]
    /\ dbs = [b \in Backends |-> EmptyDB]
    /\ outs = NoCall
    /\ last = NoLast
    /\ Served

\* time passes
Tick ==
    /\ clock < MaxTime
    /\ clock' = clock + 1
    /\ UNCHANGED <<par, backend, store, pc, batch, fails, hist>>

\* ------------------------------------------------------------- Worker
\* Worker.Start: one goroutine, one cycle per tick of the ticker
StartCycle ==
    /\ pc = "idle"
    /\ pc' = "tasks"
    /\ trace' = <<>>
    /\ UNCHANGED <<par, backend, store, clock, batch, fails, marked, retry, sent, runs>>

\* `if err == nil { continue }`: a notification for the item exists already
AlreadyNotified(err) == err = Nil

\* a variant that takes the owner from the wrong field and presets emailed
NewTaskNotificationMisfilled(t) ==
    [id |-> "", userId |-> t.id, message |-> <<"Task", t.title>>,
     type |-> "TASK_DUE", referenceId |-> t.id, read |-> FALSE,
     createdAt |-> NoTime, emailed |-> TRUE]

NewTaskNotification(t) ==
    [id |-> "", userId |-> t.userId, message |-> <<"Task", t.title>>,
     type |-> "TASK_DUE", referenceId |-> t.id, read |-> FALSE,
     createdAt |-> NoTime, emailed |-> FALSE]

NewEventNotification(e) ==
    [id |-> "", userId |-> e.userId, message |-> <<"Event", e.title>>,
     type |-> "EVENT_START", referenceId |-> e.id, read |-> FALSE,
     createdAt |-> NoTime, emailed |-> FALSE]

\* the loop of a scan moves to its next item, or the scan ends
Advance(rest, again, done) == IF rest = <<>> THEN done ELSE again

\* a variant whose failed list call ends the cycle
TasksListCallEndingCycle ==
    /\ pc = "tasks"
    /\ \E ok \in Outcomes :
         LET r == StoreGetTasksDueIn(backend, store, "24h", clock, ok)
         IN /\ batch' = r.val
            /\ pc' = IF r.err # Nil THEN "idle" ELSE Advance(r.val, "taskItem", "events")
            /\ fails' = Charge(fails, ok)
    /\ UNCHANGED <<par, backend, store, clock, marked, retry, sent>>

\* CheckUpcomingTasks: GetTasksDueIn("24h")
TasksListCall ==
    /\ pc = "tasks"
    /\ \E ok \in Outcomes :
         LET r == StoreGetTasksDueIn(backend, store, "24h", clock, ok)
         IN /\ batch' = r.val
            /\ pc' = IF r.err # Nil THEN "events" ELSE Advance(r.val, "taskItem", "events")
            /\ fails' = Charge(fails, ok)
    /\ UNCHANGED <<par, backend, store, clock, marked, retry, sent>>

TasksList == TasksListCall /\ UNCHANGED <<runs, trace>>

\* The body of a due-item loop: GetNotificationByReferenceID(item.ID, kind),
\* `continue` when it gave no error, CreateNotification(n) otherwise.
\* The store and the failure count it leaves.
NotifyItem(n, okFind, okCreate) ==
    LET f == StoreGetNotificationByReferenceID(backend, store, n.referenceId, n.type,
                                               okFind)
        k == Charge(fails, okFind)
        c == StoreCreateNotification(backend, store, n, clock, okCreate)
    IN IF AlreadyNotified(f.err) THEN [st |-> store, fails |-> k]
       ELSE [st |-> c.st, fails |-> Charge(k, okCreate)]

\* CheckUpcomingTasks: one turn of the loop
TaskItem ==
    /\ pc = "taskItem"
    /\ \E okFind \in Outcomes :
         \E okCreate \in OutcomesAt(Charge(fails, okFind)) :
           LET r == NotifyItem(NewTaskNotification(Head(batch)), okFind, okCreate)
           IN /\ store' = r.st
              /\ fails' = r.fails
    /\ batch' = Tail(batch)
    /\ pc' = Advance(Tail(batch), "taskItem", "events")
    /\ UNCHANGED <<par, backend, clock, hist>>

\* CheckUpcomingEvents: GetEventsStartingIn("24h")
EventsListCall ==
    /\ pc = "events"
    /\ \E ok \in Outcomes :
         LET r == StoreGetEventsStartingIn(backend, store, "24h", clock, ok)
         IN /\ batch' = r.val
            /\ pc' = IF r.err # Nil THEN "stale" ELSE Advance(r.val, "eventItem", "stale")
            /\ fails' = Charge(fails, ok)
    /\ UNCHANGED <<par, backend, store, clock, marked, retry, sent>>

EventsList == EventsListCall /\ UNCHANGED <<runs, trace>>

\* CheckUpcomingEvents: one turn of the loop
EventItem ==
    /\ pc = "eventItem"
    /\ \E okFind \in Outcomes :
         \E okCreate \in OutcomesAt(Charge(fails, okFind)) :
           LET r == NotifyItem(NewEventNotification(Head(batch)), okFind, okCreate)
           IN /\ store' = r.st
              /\ fails' = r.fails
    /\ batch' = Tail(batch)
    /\ pc' = Advance(Tail(batch), "eventItem", "stale")
    /\ UNCHANGED <<par, backend, clock, hist>>

\* CheckUnreadNotifications: GetUnreadNotificationsOlderThan("1h")
StaleListCall ==
    /\ pc = "stale"
    /\ \E ok \in Outcomes :
         LET r == StoreGetUnreadNotificationsOlderThan(backend, store, "1h", clock, ok)
         IN /\ batch' = r.val
            /\ pc' = IF r.err # Nil THEN "idle" ELSE Advance(r.val, "staleItem", "idle")
            /\ fails' = Charge(fails, ok)
    /\ UNCHANGED <<par, backend, store, clock, marked, retry, sent, runs>>

StaleList == StaleListCall /\ UNCHANGED trace

\* a variant that emails every user
SkipsNobody(u) == FALSE

\* `if !user.IsVerified`: no email for this user
SkipsEmail(u) == ~u.isVerified

\* a variant without the `continue`: marks whatever the Notifier returned
MarksAlways(sendOk) == TRUE

\* a variant that never marks a notification it sent
MarksNever(sendOk) == FALSE

\* `if err != nil { ...; continue }` after SendNotificationEmail: the
\* notification is marked emailed only when the email went out
MarksAfterSend(sendOk) == sendOk

\* The body of the stale-unread loop for notification n: GetUser(n.UserID);
\* unverified user: MarkNotificationAsEmailed; verified user:
\* SendNotificationEmail and, when it went out, MarkNotificationAsEmailed.
\* The store and failure count it leaves, and what happened: whether the user
\* was found and verified, the Notifier call, the MarkNotificationAsEmailed call.
EmailItem(n, okUser, sendOk, okMark) ==
    LET u == StoreGetUser(backend, store, n.userId, okUser)
        k == Charge(fails, okUser)
        m == StoreMarkNotificationAsEmailed(backend, store, n.id, okMark)
        seen == [found |-> u.err = Nil, verified |-> u.val.isVerified]
        marks == [st |-> m.st, fails |-> Charge(k, okMark), mark |-> TRUE,
                  markOk |-> m.err = Nil]
        skips == [st |-> store, fails |-> k, mark |-> FALSE, markOk |-> FALSE]
        sends == [send |-> IF sendOk THEN "ok" ELSE "failed"]
    IN IF u.err # Nil THEN seen @@ skips @@ [send |-> "none"]
       ELSE IF SkipsEmail(u.val) THEN seen @@ marks @@ [send |-> "none"]
       ELSE IF MarksAfterSend(sendOk) THEN seen @@ marks @@ sends
       ELSE seen @@ skips @@ sends

\* a variant that leaves the loop at the first item it cannot email
StaleItemTurnBreaking(r) ==
    /\ store' = r.st
    /\ fails' = r.fails
    /\ marked' = IF r.markOk THEN marked \cup {Head(batch).id} ELSE marked
    /\ batch' = Tail(batch)
    /\ pc' = IF ~r.found \/ r.send = "failed" THEN "idle"
             ELSE Advance(Tail(batch), "staleItem", "idle")
    /\ UNCHANGED <<par, backend, clock, runs>>

\* CheckUnreadNotifications: one turn of the loop, r being what EmailItem
\* gave for the item
StaleItemTurn(r) ==
    /\ store' = r.st
    /\ fails' = r.fails
    /\ marked' = IF r.markOk THEN marked \cup {Head(batch).id} ELSE marked
    /\ batch' = Tail(batch)
    /\ pc' = Advance(Tail(batch), "staleItem", "idle")
    /\ UNCHANGED <<par, backend, clock, runs>>

StaleItem ==
    /\ pc = "staleItem"
    /\ \E okUser \in Outcomes, sendOk \in BOOLEAN :
         \E okMark \in OutcomesAt(Charge(fails, okUser)) :
           StaleItemTurn(EmailItem(Head(batch), okUser, sendOk, okMark))
    /\ UNCHANGED <<trace, retry, sent>>

\* ------------------------------------------------------------- API layer
TaskInputs ==
    [id : WorkIds, userId : UserIds, title : {"Problem Set"},
     completed : BOOLEAN, due : DueChoices]
EventInputs ==
    [id : WorkIds, userId : UserIds, title : {"Lecture"}, due : DueChoices]
UserInputs ==
    [id : UserIds, name : {"Ann"}, email : {"ann@example.com"}, password : {"hash1"},
     isVerified : {FALSE}, verificationToken : {"tok1"}]
Tokens == {"tok1"}

ApiCreateTask ==
    /\ Len(store.tasks) < MaxDocs
    /\ \E t \in TaskInputs : store' = StoreCreateTask(backend, store, t, TRUE).st
    /\ UNCHANGED <<par, backend, clock, pc, batch, fails, hist>>

ApiUpdateTask ==
    /\ \E id \in WorkIds, t \in TaskInputs :
         LET r == StoreUpdateTask(backend, store, id, t, TRUE)
         IN r.err = Nil /\ store' = r.st
    /\ UNCHANGED <<par, backend, clock, pc, batch, fails, hist>>

ApiDeleteTask ==
    /\ \E id \in WorkIds :
         LET r == StoreDeleteTask(backend, store, id, TRUE)
         IN r.err = Nil /\ store' = r.st
    /\ UNCHANGED <<par, backend, clock, pc, batch, fails, hist>>

ApiCreateEvent ==
    /\ Len(store.events) < MaxDocs
    /\ \E e \in EventInputs : store' = StoreCreateEvent(backend, store, e, TRUE).st
    /\ UNCHANGED <<par, backend, clock, pc, batch, fails, hist>>

\* registration: a user under an ID of its own
ApiCreateUser ==
    /\ \E u \in UserInputs :
         /\ \A x \in Range(store.users) : x.id # u.id
         /\ store' = StoreCreateUser(backend, store, u, TRUE).st
    /\ UNCHANGED <<par, backend, clock, pc, batch, fails, hist>>

\* GET /verify-email?token=...
VerifyEmail ==
    /\ \E token \in Tokens :
         /\ token # ""
         /\ \E found \in StoreGetUserByVerificationToken(backend, store, token, TRUE) :
              /\ found.err = Nil
              /\ LET r == StoreMarkUserVerified(backend, store, found.val.id, TRUE)
                 IN r.err = Nil /\ store' = r.st
    /\ UNCHANGED <<par, backend, clock, pc, batch, fails, hist>>

\* the user opens a notification
ApiMarkRead ==
    /\ \E n \in Range(store.notifications) :
         /\ ~n.read
         /\ store' = StoreMarkNotificationAsRead(backend, store, n.id, TRUE).st
    /\ UNCHANGED <<par, backend, clock, pc, batch, fails, hist>>

Next ==
    \/ Tick
    \/ StartCycle
    \/ TasksList \/ TaskItem
    \/ EventsList \/ EventItem
    \/ StaleList \/ StaleItem
    \/ ApiCreateTask \/ ApiUpdateTask \/ ApiDeleteTask \/ ApiCreateEvent
    \/ ApiCreateUser \/ VerifyEmail \/ ApiMarkRead

Spec == Init /\ [][Next]_vars

\* ------------------------------------------------------------- properties
Notifications == Range(store.notifications)

Stored(id) == {n \in Notifications : n.id = id}

\* the notifications stored for work item ref under kind
NotificationsFor(ref, kind) ==
    {i \in 1..Len(store.notifications) :
        /\ store.notifications[i].referenceId = ref
        /\ store.notifications[i].type = kind}

\* C1: for every work item and kind there is at most one stored notification
\* with that (referenceId, type), however often the due scans run.
C1_AtMostOnePerItemAndKind ==
    \A ref \in WorkIds, kind \in Kinds : Cardinality(NotificationsFor(ref, kind)) <= 1

\* C3: emailed is monotonic: a notification stored with emailed = true has
\* emailed = true after every step, whichever operation takes the step.
C3_EmailedIsMonotonic ==
    [][\A n \in Notifications :
          n.emailed => \A m \in Range(store'.notifications) : m.id = n.id => m.emailed]_vars

\* C3, the case: a notification that was emailed and then read
C3_EmailedThenRead ==
    \E n \in Notifications : n.emailed /\ n.read /\ n.id \in marked

Durations == {"1h", "24h"}

\* the IDs a listStaleUnread call made now returns
ListedStale(duration) ==
    {n.id : n \in Range(StoreGetUnreadNotificationsOlderThan(backend, store, duration,
                                                             clock, TRUE).val)}

\* C4: a notification for which MarkNotificationAsEmailed has succeeded is in
\* the result of no later listStaleUnread call, and the batch of the worker's
\* stale-unread scan never holds it.
C4_MarkedNeverListed ==
    /\ \A d \in Durations : marked \cap ListedStale(d) = {}
    /\ pc = "staleItem" => \A i \in 1..Len(batch) : batch[i].id \notin marked

\* C4, the case: a marked notification is still unread and older than the
\* threshold of the scan
C4_MarkedStillUnreadAndOld ==
    \E n \in Notifications :
        /\ n.id \in marked
        /\ ~n.read
        /\ n.createdAt + Second <= clock - Hour

\* ------------------------------------------------------------- the stale-unread scan on record
\* The worker over a store that holds a due task and, possibly, a due event,
\* while users register, verify and read their notifications.  Each turn of
\* the stale-unread loop is put on record: trace, retry, sent.
MailItem ==
    /\ pc = "staleItem"
    /\ \E okUser \in Outcomes, sendOk \in BOOLEAN :
         \E okMark \in OutcomesAt(Charge(fails, okUser)) :
           LET n == Head(batch)
               r == EmailItem(n, okUser, sendOk, okMark)
           IN /\ StaleItemTurn(r)
              /\ retry' = IF r.send = "failed" THEN retry \cup {n.id} ELSE retry \ {n.id}
              /\ sent' = IF r.send = "ok" THEN sent \cup {n.id} ELSE sent
              /\ trace' = Append(trace, [id |-> n.id, found |-> r.found,
                                         verified |-> r.verified, send |-> r.send,
                                         mark |-> r.mark, markOk |-> r.markOk,
                                         was |-> n.id \in marked,
                                         again |-> n.id \in sent,
                                         retried |-> n.id \in retry])

DueTask == [id |-> "w1", userId |-> "u1", title |-> "Problem Set",
            completed |-> FALSE, due |-> Day]
DueEvent == [id |-> "w1", userId |-> "u1", title |-> "Lecture", due |-> Day]

InitMail ==
    /\ backend \in Backends
    /\ \E es \in {<<>>, <<DueEvent>>} :
         store = [EmptyDB EXCEPT !.tasks = <<DueTask>>, !.events = es]
    /\ clock = 0
    /\ pc = "idle"
    /\ batch = <<>>
    /\ fails = 0
    /\ marked = {}
    /\ trace = <<>>
    /\ retry = {}
    /\ sent = {}
    /\ runs = [k \in Kinds |-> 0]
    /\ dbs = [b \in Backends |-> EmptyDB]
    /\ outs = NoCall
    /\ last = NoLast
    /\ Served

NextMail ==
    \/ Tick
    \/ StartCycle
    \/ TasksList \/ TaskItem
    \/ EventsList \/ EventItem
    \/ StaleList \/ MailItem
    \/ ApiCreateUser \/ VerifyEmail \/ ApiMarkRead

SpecMail == InitMail /\ [][NextMail]_vars

\* what the stale-unread scan of this cycle did with its items
Handled == Range(trace)

Emailed(id) == \A n \in Stored(id) : n.emailed

\* the Notifier calls the scan of this cycle made for notification id
Sends(id) == {i \in 1..Len(trace) : trace[i].id = id /\ trace[i].send # "none"}

\* C5 as stated: a notification whose owner exists and is not verified ends
\* the scan with emailed = true, and no Notifier call was made for it.
C5_UnverifiedEndsEmailed ==
    \A e \in Handled :
        (e.found /\ ~e.verified) => (e.send = "none" /\ Sends(e.id) = {} /\ Emailed(e.id))

\* C5: for a notification whose owner exists and is not verified the scan makes
\* no Notifier call and calls MarkNotificationAsEmailed; the notification ends
\* the scan with emailed = true provided that call succeeds.
C5_UnverifiedMarkedUnlessMarkFails ==
    \A e \in Handled :
        (e.found /\ ~e.verified) =>
            /\ e.send = "none"
            /\ Sends(e.id) = {}
            /\ e.mark
            /\ e.markOk => (Emailed(e.id) /\ e.id \in marked)

\* C5, the case: the scan is over and it marked the notification of an
\* unverified user
C5_UnverifiedWasMarked ==
    /\ pc = "idle"
    /\ \E e \in Handled : e.found /\ ~e.verified /\ e.markOk /\ Stored(e.id) # {}

\* a turn of the stale-unread loop whose Notifier call failed
SendFailedStep ==
    /\ pc = "staleItem"
    /\ Len(trace') = Len(trace) + 1
    /\ trace'[Len(trace')].send = "failed"

\* the list call of the stale-unread scan
StaleListStep == pc = "stale" /\ pc' # "stale"

BatchIds(b) == {b[i].id : i \in 1..Len(b)}

Pending(id) == \E n \in Stored(id) : ~n.read /\ ~n.emailed

ListedTasks(duration) ==
    Range(StoreGetTasksDueIn(backend, store, duration, clock, TRUE).val)
ListedEvents(duration) ==
    Range(StoreGetEventsStartingIn(backend, store, duration, clock, TRUE).val)

\* deadline t with now < t <= now + d
InWindow(due, d) == due # BadDate /\ clock < due /\ due <= clock + d

\* C8 as stated, for the document-store backend: listDueWorkItems(kind, d)
\* returns exactly the non-completed work items of the kind whose deadline t
\* satisfies now < t <= now + d.
C8_ListsExactlyHalfOpenWindow ==
    backend = "mongo" =>
        \A duration \in Durations :
            LET d == ParseDuration(duration).d
            IN /\ ListedTasks(duration) =
                    {t \in Range(store.tasks) : ~t.completed /\ InWindow(t.due, d)}
               /\ ListedEvents(duration) =
                    {e \in Range(store.events) : InWindow(e.due, d)}

\* C9 as stated: listStaleUnread(olderThan) returns exactly the unread, not
\* emailed notifications whose creation timestamp is earlier than
\* now - olderThan.
C9_ListsExactlyOlderThan ==
    \A duration \in Durations :
        ListedStale(duration) =
            {n.id : n \in {x \in Notifications :
                              /\ ~x.read
                              /\ ~x.emailed
                              /\ x.createdAt < clock - ParseDuration(duration).d}}

\* C9: listStaleUnread(olderThan) returns exactly the unread, not emailed
\* notifications whose creation timestamp (whole seconds) lies at least one
\* whole second before now - olderThan, which is: earlier than now - olderThan
\* cut down to whole seconds.
C9_ListsExactlyOlderThanWholeSeconds ==
    \A duration \in Durations :
        ListedStale(duration) =
            {n.id : n \in {x \in Notifications :
                              /\ ~x.read
                              /\ ~x.emailed
                              /\ x.createdAt + Second <= clock - ParseDuration(duration).d}}

\* C9, the case: of two stored notifications one is returned and one is held
\* back
C9_SomeListedSomeNot ==
    /\ ListedStale("1h") # {}
    /\ \E n \in Notifications : n.id \notin ListedStale("1h")

\* ------------------------------------------------------------- the engine alone
\* The worker running cycle after cycle over a store nothing else writes to.
\* runs counts, per kind, the scans in a row whose list call was made while
\* the work item was due strictly inside the window.
DueInside(col, now) ==
    \E x \in Range(col) :
        /\ x.due # BadDate
        /\ now < x.due
        /\ x.due < now + Day

Count(k, due) ==
    IF ~due THEN 0
    ELSE IF runs[k] < MaxRuns THEN runs[k] + 1
    ELSE MaxRuns

\* what a scan's list call leaves on record
Listed(scan) == Append(trace, [scan |-> scan, failed |-> fails' # fails])

TasksScan ==
    /\ TasksListCall
    /\ trace' = Listed("tasks")
    /\ runs' = [runs EXCEPT !["TASK_DUE"] =
                   Count("TASK_DUE", DueInside(SelectSeq(store.tasks,
                                                         LAMBDA t : ~t.completed),
                                               clock))]

EventsScan ==
    /\ EventsListCall
    /\ trace' = Listed("events")
    /\ runs' = [runs EXCEPT !["EVENT_START"] =
                   Count("EVENT_START", DueInside(store.events, clock))]

StaleScan == StaleListCall /\ trace' = Listed("stale")

InitScans ==
    /\ backend \in Backends
    /\ \E ts \in {<<>>} \cup {<<t>> : t \in TaskInputs},
          es \in {<<>>} \cup {<<e>> : e \in EventInputs} :
         store = [EmptyDB EXCEPT !.tasks = ts, !.events = es]
    /\ clock = 0
    /\ pc = "idle"
    /\ batch = <<>>
    /\ fails = 0
    /\ marked = {}
    /\ trace = <<>>
    /\ retry = {}
    /\ sent = {}
    /\ runs = [k \in Kinds |-> 0]
    /\ dbs = [b \in Backends |-> EmptyDB]
    /\ outs = NoCall
    /\ last = NoLast
    /\ Served

NextScans ==
    \/ Tick
    \/ StartCycle
    \/ TasksScan \/ TaskItem
    \/ EventsScan \/ EventItem
    \/ StaleScan \/ StaleItem

SpecScans == InitScans /\ [][NextScans]_vars

\* the scan of the kind is not under way
ScanOver(kind) ==
    IF kind = "TASK_DUE" THEN pc \notin {"tasks", "taskItem"}
    ELSE pc \notin {"events", "eventItem"}

\* C2 as stated: after two or more scans in a row made while work item w1 was
\* due within the window, with no store call failing and nothing deleted,
\* exactly one notification is stored for w1 under the kind of the scan.
C2_TwoScansLeaveExactlyOne ==
    \A kind \in Kinds :
        (runs[kind] >= 2 /\ ScanOver(kind) /\ fails = 0) =>
            Cardinality(NotificationsFor("w1", kind)) = 1

\* ------------------------------------------------------------- the two backends side by side
\* One sequence of Store calls, each made with the same arguments against a
\* MongoStore and an InMemoryStore that both start empty.  No call fails in
\* the driver.  What a call returns is compared without generated IDs,
\* generated timestamps and the order of a list.
NotificationInputs ==
    [id : {"n1"}, userId : UserIds, message : {<<"Task", "Problem Set">>},
     type : {"TASK_DUE"}, referenceId : WorkIds, read : {FALSE},
     createdAt : {NoTime, 0}, emailed : {FALSE}]

\* a call that returns an error alone
ObsErr(r) == [err |-> r.err, val |-> {}]
\* a call that returns one document, or one document and an error
ObsOne(r) == [err |-> r.err, val |-> {r.val}]
\* CreateNotification: the ID and the timestamp count when the caller gave them
ObsCreated(r, n) ==
    [err |-> r.err,
     val |-> {[r.val EXCEPT !.id = IF n.id = "" THEN "" ELSE @,
                            !.createdAt = IF n.createdAt = NoTime THEN NoTime ELSE @]}]
\* a call that returns a list
ObsList(r) == [err |-> r.err, val |-> Range(r.val)]

Both(m, i, Obs(_)) ==
    /\ dbs' = [mongo |-> m.st, mem |-> i.st]
    /\ outs' = [mongo |-> Obs(m), mem |-> Obs(i)]

others == <<backend, store, clock, pc, batch, fails, hist, last, proc>>

BothGetTask ==
    /\ \E id \in WorkIds :
           Both(MongoGetTask(dbs.mongo, id, TRUE), MemGetTask(dbs.mem, id), ObsOne)
    /\ UNCHANGED others

BothCreateTask ==
    /\ Len(dbs.mongo.tasks) < MaxDocs
    /\ \E t \in TaskInputs :
         Both(MongoCreateTask(dbs.mongo, t, TRUE), MemCreateTask(dbs.mem, t), ObsOne)
    /\ UNCHANGED others

BothUpdateTask ==
    /\ \E id \in WorkIds, t \in TaskInputs :
           Both(MongoUpdateTask(dbs.mongo, id, t, TRUE), MemUpdateTask(dbs.mem, id, t), ObsOne)
    /\ UNCHANGED others

BothDeleteTask ==
    /\ \E id \in WorkIds :
           Both(MongoDeleteTask(dbs.mongo, id, TRUE), MemDeleteTask(dbs.mem, id), ObsErr)
    /\ UNCHANGED others

BothCreateEvent ==
    /\ Len(dbs.mongo.events) < MaxDocs
    /\ \E e \in EventInputs :
         Both(MongoCreateEvent(dbs.mongo, e, TRUE), MemCreateEvent(dbs.mem, e), ObsOne)
    /\ UNCHANGED others

BothGetUser ==
    /\ \E id \in UserIds :
           Both(MongoGetUser(dbs.mongo, id, TRUE), MemGetUser(dbs.mem, id), ObsOne)
    /\ UNCHANGED others

BothCreateUser ==
    /\ Len(dbs.mongo.users) < MaxDocs
    /\ \E u \in UserInputs :
         Both(MongoCreateUser(dbs.mongo, u, TRUE), MemCreateUser(dbs.mem, u), ObsOne)
    /\ UNCHANGED others

BothMarkUserVerified ==
    /\ \E id \in UserIds :
           Both(MongoMarkUserVerified(dbs.mongo, id, TRUE), MemMarkUserVerified(dbs.mem, id),
                ObsErr)
    /\ UNCHANGED others

BothCreateNotification ==
    /\ Len(dbs.mongo.notifications) < MaxDocs
    /\ \E n \in NotificationInputs :
         Both(MongoCreateNotification(dbs.mongo, n, clock, TRUE),
              MemCreateNotification(dbs.mem, n), LAMBDA r : ObsCreated(r, n))
    /\ UNCHANGED others

BothGetNotificationByReferenceID ==
    /\ \E ref \in WorkIds, kind \in Kinds :
           Both(MongoGetNotificationByReferenceID(dbs.mongo, ref, kind, TRUE),
                MemGetNotificationByReferenceID(dbs.mem, ref, kind), ObsOne)
    /\ UNCHANGED others

BothMarkNotificationAsRead ==
    /\ \E id \in {"n1"} :
           Both(MongoMarkNotificationAsRead(dbs.mongo, id, TRUE),
                MemMarkNotificationAsRead(dbs.mem, id), ObsErr)
    /\ UNCHANGED others

BothMarkNotificationAsEmailed ==
    /\ \E id \in {"n1"} :
           Both(MongoMarkNotificationAsEmailed(dbs.mongo, id, TRUE),
                MemMarkNotificationAsEmailed(dbs.mem, id), ObsErr)
    /\ UNCHANGED others

BothGetUnreadNotificationsOlderThan ==
    /\ \E d \in Durations :
           Both(MongoGetUnreadNotificationsOlderThan(dbs.mongo, d, clock, TRUE),
                MemGetUnreadNotificationsOlderThan(dbs.mem, d), ObsList)
    /\ UNCHANGED others

BothGetTasksDueIn ==
    /\ \E d \in Durations :
           Both(MongoGetTasksDueIn(dbs.mongo, d, clock, TRUE), MemGetTasksDueIn(dbs.mem, d),
                ObsList)
    /\ UNCHANGED others

BothGetEventsStartingIn ==
    /\ \E d \in Durations :
           Both(MongoGetEventsStartingIn(dbs.mongo, d, clock, TRUE),
                MemGetEventsStartingIn(dbs.mem, d), ObsList)
    /\ UNCHANGED others

NextParity ==
    \/ Tick
    \/ BothGetTask \/ BothCreateTask \/ BothUpdateTask \/ BothDeleteTask
    \/ BothCreateEvent
    \/ BothGetUser \/ BothCreateUser \/ BothMarkUserVerified
    \/ BothCreateNotification \/ BothGetNotificationByReferenceID
    \/ BothMarkNotificationAsRead \/ BothMarkNotificationAsEmailed
    \/ BothGetUnreadNotificationsOlderThan
    \/ BothGetTasksDueIn \/ BothGetEventsStartingIn

SpecParity == Init /\ [][NextParity]_vars

\* C10: after every call of every sequence of Store calls the in-process
\* backend and the document-store backend have returned equal results,
\* generated IDs, generated timestamps and list order set aside.
C10_BackendsReturnEqualResults == outs.mongo = outs.mem

\* ------------------------------------------------------------- one process and its store
\* The process from Setup on: Setup constructs the store, then Store calls
\* arrive one at a time (the handlers and the worker are its callers); last
\* holds the latest call.  Any call against MongoDB may meet a driver error.
MaxRecords == 2   \* records the store holds beyond the seeded ones

MongoURI == "mongodb://localhost:27017"

\* NewMongoStore: Connect and Ping
NewMongoStore(uri, reachable) ==
    IF reachable THEN [st |-> "mongo", err |-> Nil] ELSE [st |-> "none", err |-> Transient]

\* variant: an unreachable server falls back to the in-process store
NewStoreFallingBack(uri, reachable) ==
    IF uri # "" /\ reachable THEN [st |-> "mongo", err |-> Nil]
    ELSE [st |-> "mem", err |-> Nil]

NewStore(uri, reachable) ==
    IF uri # ""
    THEN LET ms == NewMongoStore(uri, reachable)
         IN IF ms.err # Nil THEN [st |-> "none", err |-> ms.err]
            ELSE [st |-> ms.st, err |-> Nil]
    ELSE [st |-> "mem", err |-> Nil]

\* SeedStore, with the first of its courses and the first of its tasks
SeedUser ==
    [id |-> "test-user-id", name |-> "Test User", email |-> "test@example.com",
     password |-> "seedhash", isVerified |-> FALSE, verificationToken |-> ""]
SeedCourse == [id |-> "course-1", name |-> "CS50", userId |-> "test-user-id"]
SeedTask ==
    [id |-> "task-1", userId |-> "test-user-id", title |-> "Problem Set 1",
     completed |-> FALSE, due |-> Day]
SeedIds == {"test-user-id", "course-1", "task-1"}

SeedStore(b, st) ==
    LET exists == \E r \in StoreGetUserByEmail(b, st, SeedUser.email, TRUE) : r.err = Nil
        s1 == IF exists THEN st ELSE StoreCreateUser(b, st, SeedUser, TRUE).st
        s2 == StoreCreateCourse(b, s1, SeedCourse, TRUE).st
    IN StoreCreateTask(b, s2, SeedTask, TRUE).st

\* what one call leaves behind
Called(op, arg, ok, r) ==
    /\ store' = r.st
    /\ last' = [op |-> op, arg |-> arg, ok |-> ok, err |-> r.err, val |-> r.val]
    /\ UNCHANGED <<dbs, outs, proc, backend, clock, pc, batch, fails, hist>>

MaxLoops == 2   \* worker goroutines a process holds at most

\* Worker.Start: a ticker, and a goroutine that waits for its ticks
NewLoop == [tick |-> FALSE, at |-> "idle"]

\* `if os.Getenv("VERCEL") != "1"`: Setup starts a worker
StartsWorker(vercel) == vercel # "1"

\* Setup: St is built when it is nil, and kept when it is not; a worker is
\* started over St unless the build failed
SetupCall ==
    \E uri \in {"", MongoURI}, reachable \in BOOLEAN, vercel \in {"", "1"} :
      LET r == NewStore(uri, reachable)
          arg == [uri |-> uri, reachable |-> reachable, vercel |-> vercel, St |-> backend]
      IN /\ IF backend = "none"
            THEN IF r.err # Nil
                 THEN UNCHANGED <<backend, store>>
                 ELSE /\ backend' = r.st
                      /\ store' = IF vercel # "1" THEN SeedStore(r.st, EmptyDB) ELSE EmptyDB
            ELSE UNCHANGED <<backend, store>>
         /\ last' = [op |-> "Setup", arg |-> arg, ok |-> reachable,
                     err |-> IF backend = "none" THEN r.err ELSE Nil,
                     val |-> [St |-> backend']]
         /\ IF (backend # "none" \/ r.err = Nil) /\ StartsWorker(vercel)
            THEN Len(loops) < MaxLoops /\ loops' = Append(loops, NewLoop)
            ELSE UNCHANGED loops
         /\ UNCHANGED <<dbs, outs, clock, pc, batch, fails, hist, reqs>>

\* Setup, called on a process that is serving
Setup == SetupCall /\ UNCHANGED <<main, once>>

Up == backend \in Backends
Drivers == OutcomesAt(0)

Records(st) ==
    Range(st.tasks) \cup Range(st.courses) \cup Range(st.events) \cup Range(st.users)
        \cup Range(st.notifications)
Size(st) ==
    Len(st.tasks) + Len(st.courses) + Len(st.events) + Len(st.users) + Len(st.notifications)
Seeded(st) == Cardinality({x \in Records(st) : x.id \in SeedIds})
Room == Size(store) - Seeded(store) < MaxRecords

TaskDrafts ==
    [id : {"", "w1"}, userId : UserIds, title : {"Problem Set"}, completed : {FALSE},
     due : {Day}]
TaskEdits ==
    [id : {"w1"}, userId : UserIds, title : {"Problem Set"}, completed : {TRUE}, due : {Day}]
CourseDrafts == [id : {"", "c1"}, name : {"Algebra"}, userId : UserIds]
EventDrafts == [id : {"", "w1"}, userId : UserIds, title : {"Lecture"}, due : {Day}]
AccountIds == {"u1", "u2"}
Accounts ==
    UserInputs \cup
    {[id |-> "u2", name |-> "Ben", email |-> "ben@example.com", password |-> "hash1",
      isVerified |-> FALSE, verificationToken |-> "tok2"]}
Emails == {"ann@example.com", "ben@example.com"}
ProfileEdits ==
    {[NoUser EXCEPT !.name = n] : n \in {"", "Bob"}}
Hashes == {"", "hash2"}
NotificationDrafts ==
    {[NoNotification EXCEPT !.userId = "u1", !.message = <<"Task", "Problem Set">>,
                            !.type = k, !.referenceId = "w1"] : k \in Kinds}

\* the IDs CreateNotification gives out first
NotificationIds == {Uuids[1], Uuids[2]}

CallGetTask ==
    /\ Up
    /\ \E id \in WorkIds, ok \in Drivers :
         Called("GetTask", [id |-> id], ok, StoreGetTask(backend, store, id, ok))

CallCreateTask ==
    /\ Up /\ Room
    /\ \E t \in TaskDrafts, ok \in Drivers :
         Called("CreateTask", [x |-> t], ok, StoreCreateTask(backend, store, t, ok))

CallUpdateTask ==
    /\ Up
    /\ \E id \in WorkIds, t \in TaskEdits, ok \in Drivers :
         Called("UpdateTask", [id |-> id, x |-> t], ok,
                StoreUpdateTask(backend, store, id, t, ok))

CallDeleteTask ==
    /\ Up
    /\ \E id \in WorkIds, ok \in Drivers :
         Called("DeleteTask", [id |-> id], ok, StoreDeleteTask(backend, store, id, ok))

CallCreateCourse ==
    /\ Up /\ Room
    /\ \E c \in CourseDrafts, ok \in Drivers :
         Called("CreateCourse", [x |-> c], ok, StoreCreateCourse(backend, store, c, ok))

CallCreateEvent ==
    /\ Up /\ Room
    /\ \E e \in EventDrafts, ok \in Drivers :
         Called("CreateEvent", [x |-> e], ok, StoreCreateEvent(backend, store, e, ok))

CallGetUser ==
    /\ Up
    /\ \E id \in AccountIds, ok \in Drivers :
         Called("GetUser", [id |-> id], ok, StoreGetUser(backend, store, id, ok))

CallGetUserByEmail ==
    /\ Up
    /\ \E email \in Emails, ok \in Drivers :
         \E r \in StoreGetUserByEmail(backend, store, email, ok) :
            Called("GetUserByEmail", [email |-> email], ok, r)

\* registration: the handler gives every user an ID of its own
CallCreateUser ==
    /\ Up /\ Room
    /\ \E u \in Accounts, ok \in Drivers :
         /\ \A x \in Range(store.users) : x.id # u.id
         /\ Called("CreateUser", [x |-> u], ok,
                   StoreCreateUser(backend, store, u, ok))

CallUpdateUser ==
    /\ Up
    /\ \E id \in AccountIds, u \in ProfileEdits, ok \in Drivers :
         Called("UpdateUser", [id |-> id, x |-> u], ok,
                StoreUpdateUser(backend, store, id, u, ok))

CallUpdateUserPassword ==
    /\ Up
    /\ \E id \in AccountIds, h \in Hashes, ok \in Drivers :
         Called("UpdateUserPassword", [id |-> id, hash |-> h], ok,
                StoreUpdateUserPassword(backend, store, id, h, ok))

CallMarkUserVerified ==
    /\ Up
    /\ \E id \in AccountIds, ok \in Drivers :
         Called("MarkUserVerified", [id |-> id], ok,
                StoreMarkUserVerified(backend, store, id, ok))

CallCreateNotification ==
    /\ Up /\ Room
    /\ \E n \in NotificationDrafts, ok \in Drivers :
         Called("CreateNotification", [x |-> n], ok,
                StoreCreateNotification(backend, store, n, clock, ok))

CallGetNotificationByReferenceID ==
    /\ Up
    /\ \E ref \in WorkIds, kind \in Kinds, ok \in Drivers :
         Called("GetNotificationByReferenceID", [ref |-> ref, kind |-> kind], ok,
                StoreGetNotificationByReferenceID(backend, store, ref, kind, ok))

CallMarkNotificationAsRead ==
    /\ Up
    /\ \E id \in NotificationIds, ok \in Drivers :
         Called("MarkNotificationAsRead", [id |-> id], ok,
                StoreMarkNotificationAsRead(backend, store, id, ok))

CallMarkNotificationAsEmailed ==
    /\ Up
    /\ \E id \in NotificationIds, ok \in Drivers :
         Called("MarkNotificationAsEmailed",
                [id |-> id, was |-> \E n \in Stored(id) : n.emailed], ok,
                StoreMarkNotificationAsEmailed(backend, store, id, ok))

\* a variant that looks up whatever token it is given
MissingTokenAccepted(token) == FALSE

\* `if token == ""`: the request carries no token
MissingToken(token) == token = ""

\* GET /verify-email?token=...: the handler and the status it answers with
VerifyEmailRequest ==
    /\ Up
    /\ \E token \in {"", "tok1", "tok2"}, okFind \in Drivers :
       \E okMark \in Drivers :
       \E found \in StoreGetUserByVerificationToken(backend, store, token, okFind) :
         LET r == StoreMarkUserVerified(backend, store, found.val.id, okMark)
             arg == [token |-> token]
         IN IF MissingToken(token) THEN
                 Called("verify-email", arg, TRUE,
                        [st |-> store, err |-> Nil, val |-> [status |-> 400]])
            ELSE IF found.err # Nil THEN
                 Called("verify-email", arg, okFind,
                        [st |-> store, err |-> found.err, val |-> [status |-> 400]])
            ELSE IF r.err # Nil THEN
                 Called("verify-email", arg, okMark,
                        [st |-> store, err |-> r.err, val |-> [status |-> 500]])
            ELSE Called("verify-email", arg, TRUE,
                        [st |-> r.st, err |-> Nil, val |-> [status |-> 200]])

InitStore ==
    /\ backend = "none"
    /\ store = EmptyDB
    /\ clock = 0
    /\ pc = "idle"
    /\ batch = <<>>
    /\ fails = 0
    /\ marked = {}
    /\ trace = <<>>
    /\ retry = {}
    /\ sent = {}
    /\ runs = [k \in Kinds |-> 0]
    /\ dbs = [b \in Backends |-> EmptyDB]
    /\ outs = NoCall
    /\ last = NoLast
    /\ Served

NextStore ==
    \/ Setup
    \/ CallGetTask \/ CallCreateTask \/ CallUpdateTask \/ CallDeleteTask
    \/ CallCreateCourse \/ CallCreateEvent
    \/ CallCreateNotification \/ CallGetNotificationByReferenceID
    \/ CallMarkNotificationAsRead \/ CallMarkNotificationAsEmailed

SpecStore == InitStore /\ [][NextStore]_vars

\* the same process, its callers those that deal with users
NextUsers ==
    \/ Setup
    \/ CallGetUser \/ CallGetUserByEmail \/ CallCreateUser
    \/ CallUpdateUser \/ CallUpdateUserPassword \/ CallMarkUserVerified
    \/ VerifyEmailRequest

SpecUsers == InitStore /\ [][NextUsers]_vars

\* ------------------------------------------------------------- properties of the store calls
\* C11: createNotification(n) persists n, with an ID and a creation
\* timestamp assigned when absent: a findNotification(n.reference, n.kind)
\* made right after it returns a Notification with that reference and kind,
\* not NotFound; and findNotification reports NotFound for a key no
\* Notification was created under.
C11_CreatedIsFound ==
    /\ last.op = "CreateNotification" =>
         LET n == last.arg.x
             f == StoreGetNotificationByReferenceID(backend, store, n.referenceId, n.type, TRUE)
         IN /\ f.err = Nil
            /\ f.val.referenceId = n.referenceId /\ f.val.type = n.type
            /\ f.val.id # "" /\ f.val.createdAt # NoTime
    /\ last.op = "GetNotificationByReferenceID" /\ last.ok
         /\ NotificationsFor(last.arg.ref, last.arg.kind) = {}
         => last.err = NotFound

\* C12: markEmailed is idempotent: on an existing Notification a second call
\* succeeds (or reports the driver's error) and leaves the store as the first
\* call left it, which is the store before with emailed = true on that
\* Notification and everything else as it was.
C12_MarkEmailedTwice ==
    \A n \in Range(store.notifications), ok \in Drivers :
      LET first == StoreMarkNotificationAsEmailed(backend, store, n.id, TRUE)
          second == StoreMarkNotificationAsEmailed(backend, first.st, n.id, ok)
          ns == store.notifications
          set == [i \in DOMAIN ns |-> IF ns[i].id = n.id THEN [ns[i] EXCEPT !.emailed = TRUE]
                                      ELSE ns[i]]
      IN /\ first.err = Nil
         /\ first.st = [store EXCEPT !.notifications = set]
         /\ ok => second.err = Nil
         /\ second.st = first.st

\* a call for a Notification that an earlier call had already marked
C12_MarkedAgain ==
    /\ last.op = "MarkNotificationAsEmailed" /\ last.arg.was
    /\ last.ok /\ last.err = Nil
    /\ \E n \in Stored(last.arg.id) : n.emailed

\* C13: a get, update or delete on a Task or a User (GetTask, UpdateTask,
\* DeleteTask, GetUser, UpdateUser, UpdateUserPassword, MarkUserVerified)
\* given an ID no record has reports NotFound and leaves the store as it
\* was, on either backend and whatever the other arguments are.
C13_UnknownIdIsNotFound ==
    [][LET tasks == {"GetTask", "UpdateTask", "DeleteTask"}
           users == {"GetUser", "UpdateUser", "UpdateUserPassword", "MarkUserVerified"}
           held == IF last'.op \in tasks THEN {t.id : t \in Range(store.tasks)}
                   ELSE {u.id : u \in Range(store.users)}
       IN last'.op \in tasks \cup users /\ last'.ok /\ last'.arg.id \notin held
            => last'.err = NotFound /\ store' = store]_vars

\* C14: one backend per process.  The first Setup builds the document-store
\* backend when a non-empty URI is configured and the in-process backend
\* when none is; when the document store cannot be reached it reports an
\* error and builds no backend, the in-process one included; and once a store
\* is built no step, a later Setup included, replaces it.
C14_OneBackendPerProcess ==
    [][/\ backend # "none" => backend' = backend
       /\ last'.op = "Setup" =>
            LET a == last'.arg
            IN IF backend # "none" THEN store' = store /\ last'.err = Nil
               ELSE /\ a.uri = "" => backend' = "mem" /\ last'.err = Nil
                    /\ a.uri # "" /\ a.reachable => backend' = "mongo" /\ last'.err = Nil
                    /\ a.uri # "" /\ ~a.reachable =>
                         backend' = "none" /\ last'.err # Nil /\ store' = store]_vars

\* Setup ran again, with a reachable document store configured, in a process
\* whose in-process store already holds records
C14_SetupAgain ==
    /\ last.op = "Setup" /\ last.arg.St = "mem"
    /\ last.arg.uri = MongoURI /\ last.arg.reachable
    /\ backend = "mem" /\ Size(store) > 0

\* ------------------------------------------------------------- properties of the user operations
\* C15: for a stored user with IsVerified = false and a non-empty token t,
\* GET /verify-email?token=t answers 200 unless the driver fails, and after
\* it GetUser returns that user with IsVerified = true, an empty
\* VerificationToken, and ID, name, email and password as they were.
C15_VerifyEmailVerifies ==
    [][\A u \in Range(store.users) :
         /\ last'.op = "verify-email" /\ last'.ok
         /\ ~u.isVerified /\ u.verificationToken # ""
         /\ last'.arg.token = u.verificationToken
         => /\ last'.val.status = 200
            /\ LET got == StoreGetUser(backend, store', u.id, TRUE)
               IN /\ got.err = Nil
                  /\ got.val = [u EXCEPT !.isVerified = TRUE, !.verificationToken = ""]]_vars

\* the handler answered 200 and left a user verified whose name and password
\* had been changed since registration
C15_VerifiedAfterEdits ==
    /\ last.op = "verify-email" /\ last.val.status = 200
    /\ \E u \in Range(store.users) :
         /\ u.isVerified /\ u.verificationToken = ""
         /\ u.name = "Bob" /\ u.password = "hash2"
         /\ last.arg.token \in {a.verificationToken : a \in {b \in Accounts : b.id = u.id}}

C17_NotificationsKeepIdentity ==
    [][/\ Len(store'.notifications) >= Len(store.notifications)
       /\ \A i \in DOMAIN store.notifications :
            [store'.notifications[i] EXCEPT !.read = FALSE, !.emailed = FALSE]
                = [store.notifications[i] EXCEPT !.read = FALSE, !.emailed = FALSE]]_vars

\* two Notifications are stored, one of them read and emailed by now
C17_ReadAndEmailedAmongTwo ==
    /\ Len(store.notifications) >= 2
    /\ \E n \in Notifications : n.read /\ n.emailed /\ n.id \in marked

\* C18: a step of the engine (the worker moves on: pc or batch changes)
\* leaves every User, Task, Event and Course as it was; what it writes is
\* one new Notification (createNotification) or emailed = true on a stored
\* one (markEmailed).
C18_EngineWritesNotificationsOnly ==
    [][pc' # pc \/ batch' # batch =>
         /\ store'.tasks = store.tasks /\ store'.events = store.events
         /\ store'.users = store.users /\ store'.courses = store.courses
         /\ Len(store'.notifications) \in {Len(store.notifications),
                                          Len(store.notifications) + 1}
         /\ \A i \in DOMAIN store.notifications :
              \/ store'.notifications[i] = store.notifications[i]
              \/ /\ Len(store'.notifications) = Len(store.notifications)
                 /\ store'.notifications[i] = [store.notifications[i] EXCEPT !.emailed = TRUE]
       ]_vars

\* a cycle has ended in which the engine created a Notification and marked
\* one emailed, with a user and a task stored
C18_CycleWroteBoth ==
    /\ pc = "idle" /\ marked # {}
    /\ store.users # <<>> /\ store.tasks # <<>>
    /\ \E n \in Notifications : n.emailed /\ ~n.read

\* C19: a create (CreateTask, CreateEvent, CreateCourse, CreateUser,
\* CreateNotification) given an entity without an ID assigns it an ID no
\* stored record of its kind has and adds it to the store, so that two
\* creates of ID-less entities leave two records and neither overwrites the
\* other.
C19_IdLessCreateAddsRecord ==
    [][LET name == [CreateTask |-> "tasks", CreateEvent |-> "events",
                    CreateCourse |-> "courses", CreateUser |-> "users",
                    CreateNotification |-> "notifications"]
           old == store[name[last'.op]]
           new == store'[name[last'.op]]
       IN last'.op \in DOMAIN name /\ last'.ok /\ last'.arg.x.id = ""
            => /\ last'.val.id # ""
               /\ last'.val.id \notin {x.id : x \in Range(old)}
               /\ Len(new) = Len(old) + 1
               /\ \A x \in Range(old) : x \in Range(new)
               /\ \E x \in Range(new) : x.id = last'.val.id]_vars

\* C20: when GetNotificationByReferenceID fails for a due item with a driver
\* error (not ErrNotFound), the turn of the loop for that item creates no
\* Notification: the store is left as it was and the item waits for a later
\* cycle.
C20_TransientFindSkipsItem ==
    pc \in {"taskItem", "eventItem"} /\ FALSE \in Outcomes =>
        LET n == IF pc = "taskItem" THEN NewTaskNotification(Head(batch))
                 ELSE NewEventNotification(Head(batch))
        IN NotifyItem(n, FALSE, TRUE).st = store

\* ------------------------------------------------------------- the process and its goroutines
\* The process from its entry point on: func main, which calls Setup once
\* before it serves, or the serverless Handler, which runs Setup through
\* server.Once.  Each goroutine Worker.Start launched waits on its own ticker
\* and walks through the three scans; a scan is one step here, no call
\* failing.
OnceDoAlways(done) == TRUE

\* sync.Once.Do: f is run by the first call alone
OnceDo(done) == ~done

\* func main: Setup, then ListenAndServe
Main ==
    /\ main = "start"
    /\ main' = "serving"
    /\ SetupCall
    /\ UNCHANGED once

\* the serverless Handler, up to the request it serves: Once.Do(Setup)
Handler ==
    /\ main = "none"
    /\ OnceDo(once)
    /\ once' = TRUE
    /\ SetupCall
    /\ UNCHANGED main

\* the ticker of a goroutine fires: its channel holds one tick, a tick that
\* finds it full is dropped
TickerFires ==
    /\ \E i \in DOMAIN loops :
         /\ ~loops[i].tick
         /\ loops' = [loops EXCEPT ![i].tick = TRUE]
    /\ UNCHANGED <<dbs, outs, last, main, once, reqs, backend, store, clock, pc, batch, fails,
                   hist>>

\* `for range ticker.C`: the goroutine takes a tick when its last cycle is over
LoopReceive ==
    /\ \E i \in DOMAIN loops :
         /\ loops[i].at = "idle"
         /\ loops[i].tick
         /\ loops' = [loops EXCEPT ![i] = [tick |-> FALSE, at |-> "tasks"]]
    /\ UNCHANGED <<dbs, outs, last, main, once, reqs, backend, store, clock, pc, batch, fails,
                   hist>>

\* the loop of CheckUpcomingTasks or CheckUpcomingEvents over its list
RECURSIVE NotifyAll(_, _, _, _, _)
NotifyAll(b, st, items, kind, now) ==
    IF items = <<>> THEN st
    ELSE LET n == IF kind = "TASK_DUE" THEN NewTaskNotification(Head(items))
                  ELSE NewEventNotification(Head(items))
             f == StoreGetNotificationByReferenceID(b, st, n.referenceId, n.type, TRUE)
             s == IF AlreadyNotified(f.err) THEN st
                  ELSE StoreCreateNotification(b, st, n, now, TRUE).st
         IN NotifyAll(b, s, Tail(items), kind, now)

CheckUpcomingTasks(b, st, now) ==
    LET r == StoreGetTasksDueIn(b, st, "24h", now, TRUE)
    IN IF r.err # Nil THEN st ELSE NotifyAll(b, st, r.val, "TASK_DUE", now)

CheckUpcomingEvents(b, st, now) ==
    LET r == StoreGetEventsStartingIn(b, st, "24h", now, TRUE)
    IN IF r.err # Nil THEN st ELSE NotifyAll(b, st, r.val, "EVENT_START", now)

\* the loop of CheckUnreadNotifications over its list, sendOk being what the
\* Notifier answers during this scan
RECURSIVE EmailAll(_, _, _, _)
EmailAll(b, st, items, sendOk) ==
    IF items = <<>> THEN st
    ELSE LET n == Head(items)
             u == StoreGetUser(b, st, n.userId, TRUE)
             m == StoreMarkNotificationAsEmailed(b, st, n.id, TRUE).st
             s == IF u.err # Nil THEN st
                  ELSE IF SkipsEmail(u.val) THEN m
                  ELSE IF MarksAfterSend(sendOk) THEN m
                  ELSE st
         IN EmailAll(b, s, Tail(items), sendOk)

CheckUnreadNotifications(b, st, now, sendOk) ==
    LET r == StoreGetUnreadNotificationsOlderThan(b, st, "1h", now, TRUE)
    IN IF r.err # Nil THEN st ELSE EmailAll(b, st, r.val, sendOk)

\* the body of the goroutine's loop, scan by scan
LoopTasks ==
    /\ \E i \in DOMAIN loops :
         /\ loops[i].at = "tasks"
         /\ loops' = [loops EXCEPT ![i].at = "events"]
    /\ store' = CheckUpcomingTasks(backend, store, clock)
    /\ UNCHANGED <<dbs, outs, last, main, once, reqs, backend, clock, pc, batch, fails, hist>>

LoopEvents ==
    /\ \E i \in DOMAIN loops :
         /\ loops[i].at = "events"
         /\ loops' = [loops EXCEPT ![i].at = "stale"]
    /\ store' = CheckUpcomingEvents(backend, store, clock)
    /\ UNCHANGED <<dbs, outs, last, main, once, reqs, backend, clock, pc, batch, fails, hist>>

LoopStale ==
    /\ \E i \in DOMAIN loops :
         /\ loops[i].at = "stale"
         /\ loops' = [loops EXCEPT ![i].at = "idle"]
    /\ \E sendOk \in BOOLEAN :
         store' = CheckUnreadNotifications(backend, store, clock, sendOk)
    /\ UNCHANGED <<dbs, outs, last, main, once, reqs, backend, clock, pc, batch, fails, hist>>

InitLoop ==
    /\ backend = "none"
    /\ store = EmptyDB
    /\ clock = 0
    /\ pc = "idle"
    /\ batch = <<>>
    /\ fails = 0
    /\ marked = {}
    /\ trace = <<>>
    /\ retry = {}
    /\ sent = {}
    /\ runs = [k \in Kinds |-> 0]
    /\ dbs = [b \in Backends |-> EmptyDB]
    /\ outs = NoCall
    /\ last = NoLast
    /\ main \in {"start", "none"}
    /\ once = FALSE
    /\ loops = <<>>
    /\ reqs = <<>>

NextLoop ==
    \/ Tick
    \/ Main \/ Handler
    \/ TickerFires \/ LoopReceive
    \/ LoopTasks \/ LoopEvents \/ LoopStale

SpecLoop == InitLoop /\ [][NextLoop]_vars

\* the goroutines that are inside a cycle
Cycling == {i \in DOMAIN loops : loops[i].at # "idle"}

\* C21: engine cycles never overlap.  A process holds at most one worker
\* goroutine, a goroutine takes a tick only when its last cycle is over, and
\* so at no time are two cycles, or two scans, of the process under way.
C21_CyclesNeverOverlap ==
    /\ Len(loops) <= 1
    /\ Cardinality(Cycling) <= 1
    /\ \A i \in DOMAIN loops : loops[i].at \in {"idle", "tasks", "events", "stale"}

\* C21, the case: the ticker fired again while the cycle of the earlier tick
\* is in its stale-unread scan and has written to the store
C21_TickWaitsForCycle ==
    /\ Cycling # {}
    /\ \E i \in Cycling : loops[i].tick /\ loops[i].at = "stale"
    /\ store.notifications # <<>>

\* ------------------------------------------------------------- properties of the cycle
\* the scans in the order the loop of Worker.Start calls them
ScanOrder == <<"tasks", "events", "stale">>

\* the list calls a cycle has made when its goroutine stands at a position
ListCalls(at) ==
    CASE at = "tasks" -> 0
      [] at \in {"taskItem", "events"} -> 1
      [] at \in {"eventItem", "stale"} -> 2
      [] OTHER -> 3

\* where the goroutine stands when a scan has returned
AfterScan(at) ==
    CASE at = "tasks" -> "events"
      [] at = "events" -> "stale"
      [] OTHER -> "idle"

\* C22: every cycle makes its three scans in the order task scan, event
\* scan, stale-unread scan; a scan whose list call fails returns without
\* touching the store, the scans after it still run in the same cycle, and
\* the goroutine is back at its ticker for the next tick.
C22_ThreeScansInOrder ==
    [][/\ \A i \in DOMAIN trace' : trace'[i].scan = ScanOrder[i]
       /\ pc' # "idle" => Len(trace') = ListCalls(pc')
       /\ (pc # "idle" /\ pc' = "idle") => Len(trace') = 3
       /\ (pc = "idle" /\ pc' # "idle") => (pc' = "tasks" /\ trace' = <<>>)
       /\ (pc \in {"tasks", "events", "stale"} /\ fails' # fails) =>
            /\ store' = store
            /\ pc' = AfterScan(pc)
            /\ trace'[Len(trace')].failed]_vars

\* C22, the case: the cycle is over, its task scan failed at the list call
\* and its event scan created a notification all the same
C22_CycleWentOnAfterFailure ==
    /\ pc = "idle"
    /\ Len(trace) = 3
    /\ trace[1].failed /\ ~trace[2].failed
    /\ \E n \in Notifications : n.type = "EVENT_START"
    /\ \A n \in Notifications : n.type # "TASK_DUE"
    /\ \E t \in Range(store.tasks) : ~t.completed /\ t.due # BadDate /\ clock < t.due

\* a turn of the stale-unread loop, and what it put on record
StaleItemStep == pc = "staleItem" /\ Len(trace') = Len(trace) + 1
Turn == trace'[Len(trace')]

\* C23: in the stale-unread scan a notification whose owner cannot be found,
\* or whose email fails, is left as it was, emailed = false, and the scan
\* goes on to every other notification of its list.
C23_ItemsHandledIndependently ==
    [][StaleItemStep =>
         /\ (~Turn.found \/ Turn.send = "failed") =>
              /\ store' = store
              /\ ~Turn.mark
              /\ \A n \in Stored(Turn.id) : ~n.emailed
         /\ Turn.id = Head(batch).id
         /\ batch' = Tail(batch)
         /\ pc' = IF Tail(batch) = <<>> THEN "idle" ELSE "staleItem"]_vars

\* C23, the case: the scan is over; the owner of its first notification was
\* not found, and its second notification was emailed and marked
C23_SecondEmailedAfterFirstSkipped ==
    /\ pc = "idle"
    /\ Len(trace) = 2
    /\ ~trace[1].found
    /\ trace[2].send = "ok" /\ trace[2].markOk
    /\ trace[1].id # trace[2].id
    /\ \E n \in Stored(trace[1].id) : ~n.emailed
    /\ \E n \in Stored(trace[2].id) : n.emailed

\* ------------------------------------------------------------- properties of the goroutine's scans
\* a goroutine makes its task scan, its event scan
TaskScanStep == \E i \in DOMAIN loops : loops[i].at = "tasks" /\ loops'[i].at = "events"
EventScanStep == \E i \in DOMAIN loops : loops[i].at = "events" /\ loops'[i].at = "stale"

\* C24 as stated: after a task scan (an event scan) that met no store error,
\* every non-completed task (every event) whose deadline lies within 24 hours
\* of the time of the scan has a notification of kind TASK_DUE (EVENT_START)
\* that refers to it, and an item that had one already has no more than
\* before.
C24_ScanNotifiesEveryDueItem ==
    [][/\ TaskScanStep =>
            \A t \in Range(store.tasks) :
                /\ (~t.completed /\ InWindow(t.due, Day)) =>
                       NotificationsFor(t.id, "TASK_DUE")' # {}
                /\ NotificationsFor(t.id, "TASK_DUE") # {} =>
                       NotificationsFor(t.id, "TASK_DUE")' = NotificationsFor(t.id, "TASK_DUE")
       /\ EventScanStep =>
            \A e \in Range(store.events) :
                /\ InWindow(e.due, Day) => NotificationsFor(e.id, "EVENT_START")' # {}
                /\ NotificationsFor(e.id, "EVENT_START") # {} =>
                       NotificationsFor(e.id, "EVENT_START")'
                           = NotificationsFor(e.id, "EVENT_START")]_vars

\* the notifications a step adds to the store
Created == {n \in Notifications' : \A m \in Notifications : m.id # n.id}

\* C25: every notification the engine creates is unread and not emailed when
\* it is created, has kind TASK_DUE when the task scan creates it and
\* EVENT_START when the event scan does, refers to the scanned item by its ID
\* and belongs to that item's owner.
C25_CreatedForTheScannedItem ==
    [][/\ pc \notin {"taskItem", "eventItem"} => Created = {}
       /\ pc \in {"taskItem", "eventItem"} =>
            \A n \in Created :
                /\ ~n.read
                /\ ~n.emailed
                /\ n.type = IF pc = "taskItem" THEN "TASK_DUE" ELSE "EVENT_START"
                /\ n.referenceId = Head(batch).id
                /\ n.userId = Head(batch).userId
                /\ n.id # ""]_vars

\* C25, the case: a cycle is over in which both scans created a notification
C25_BothKindsCreated ==
    /\ pc = "idle"
    /\ \E n \in Notifications, t \in Range(store.tasks) :
          n.type = "TASK_DUE" /\ n.referenceId = t.id /\ n.userId = t.userId
    /\ \E n \in Notifications, e \in Range(store.events) :
          n.type = "EVENT_START" /\ n.referenceId = e.id /\ n.userId = e.userId

\* ------------------------------------------------------------- the retry of a failed email
\* The worker over a store that holds a due task and, possibly, its verified
\* owner, while the owner reads notifications.  Time passes, the goroutine
\* goes on from every position it stands at, and a Notifier that is asked
\* again and again delivers in the end.
VerifiedUser ==
    [id |-> "u1", name |-> "Ann", email |-> "ann@example.com", password |-> "hash1",
     isVerified |-> TRUE, verificationToken |-> ""]

InitRetry ==
    /\ backend \in Backends
    /\ \E us \in {<<>>, <<VerifiedUser>>},
          due \in {[tasks |-> <<DueTask>>, events |-> <<>>],
                   [tasks |-> <<>>, events |-> <<DueEvent>>]} :
         store = [EmptyDB EXCEPT !.tasks = due.tasks, !.events = due.events, !.users = us]
    /\ clock = 0
    /\ pc = "idle"
    /\ batch = <<>>
    /\ fails = 0
    /\ marked = {}
    /\ trace = <<>>
    /\ retry = {}
    /\ sent = {}
    /\ runs = [k \in Kinds |-> 0]
    /\ dbs = [b \in Backends |-> EmptyDB]
    /\ outs = NoCall
    /\ last = NoLast
    /\ Served

NextRetry ==
    \/ Tick
    \/ StartCycle
    \/ TasksList \/ TaskItem
    \/ EventsList \/ EventItem
    \/ StaleList \/ MailItem
    \/ ApiMarkRead

\* a turn of the stale-unread loop in which the Notifier delivers
Delivers == MailItem /\ trace'[Len(trace')].send = "ok"

FairRetry ==
    /\ WF_vars(Tick)
    /\ WF_vars(StartCycle)
    /\ WF_vars(TasksList) /\ WF_vars(TaskItem)
    /\ WF_vars(EventsList) /\ WF_vars(EventItem)
    /\ WF_vars(StaleList) /\ WF_vars(MailItem)
    /\ SF_vars(Delivers)

SpecRetry == InitRetry /\ [][NextRetry]_vars /\ FairRetry

\* the owner of notification id is stored and verified
OwnerVerified(id) ==
    \E n \in Stored(id) : \E u \in Range(store.users) : u.id = n.userId /\ u.isVerified

\* C26 as stated: a notification whose email failed is listed again by the
\* stale-unread scan of every following cycle and a send is attempted for it,
\* and a notification that is unread, not emailed and older than the
\* threshold, its owner verified, ends up emailed unless it is read first.
C26_RetriedEveryCycleUntilEmailed ==
    /\ [][/\ StaleListStep => {id \in retry : Pending(id)} \subseteq BatchIds(batch')
          /\ (StaleItemStep /\ Turn.retried) => Turn.send # "none"]_vars
    /\ \A i \in 1..2 :
          (Uuids[i] \in ListedStale("1h") /\ OwnerVerified(Uuids[i])) ~> ~Pending(Uuids[i])

\* C26: a notification whose email failed is listed again by the stale-unread
\* scan of every following cycle whose list call succeeds, and a send is
\* attempted for it when the lookup of its owner succeeds; with a goroutine
\* that keeps cycling, a store that answers in the end and a Notifier that
\* delivers in the end, a stale unread notification of a verified owner ends
\* up emailed unless it is read first.
C26_RetriedWhenStoreAnswersUntilEmailed ==
    /\ [][/\ (StaleListStep /\ fails' = fails) =>
               {id \in retry : Pending(id)} \subseteq BatchIds(batch')
          /\ (StaleItemStep /\ Turn.retried /\ Turn.found) => Turn.send # "none"]_vars
    /\ \A i \in 1..2 :
          (Uuids[i] \in ListedStale("1h") /\ OwnerVerified(Uuids[i])) ~> ~Pending(Uuids[i])

\* C26, the case: the scan is over; the email of a notification had failed in
\* an earlier cycle, and this scan sent it and marked it, still unread
C26_EmailedOnRetry ==
    /\ pc = "idle"
    /\ \E e \in Handled :
          /\ e.retried /\ e.send = "ok" /\ e.markOk
          /\ \E n \in Stored(e.id) : n.emailed /\ ~n.read

\* ------------------------------------------------------------- properties of delivery
\* C27 as stated: no notification is emailed twice; the Notifier delivers at
\* most once for a notification, over all cycles, also when
\* MarkNotificationAsEmailed fails after a delivery.
C27_DeliveredAtMostOnce ==
    \A e \in Handled : e.send = "ok" => ~e.again

\* ------------------------------------------------------------- properties of verification
\* the users a step turns from unverified to verified
NewlyVerified ==
    {u \in Range(store.users) :
        ~u.isVerified /\ \E v \in Range(store'.users) : v.id = u.id /\ v.isVerified}

\* the token was issued to an account that is verified by now
Used(token) ==
    \E a \in Accounts : a.verificationToken = token /\
        \E u \in Range(store.users) : u.id = a.id /\ u.isVerified

\* C28: a /verify-email request marks a user verified only when its token is
\* not empty and is the verification token that user has in the store; a
\* request without token is answered 400 and changes nothing; and a token
\* that has verified its user verifies nobody when it comes again.
C28_VerifiedOnlyByOwnToken ==
    [][last'.op = "verify-email" =>
         /\ \A u \in NewlyVerified :
                last'.arg.token # "" /\ u.verificationToken = last'.arg.token
         /\ \A u \in Range(store.users) : u \notin NewlyVerified => u \in Range(store'.users)
         /\ last'.arg.token = "" => (store' = store /\ last'.val.status = 400)
         /\ Used(last'.arg.token) => (store' = store /\ last'.val.status # 200)]_vars

\* C28, the case: the token of a user who is verified was presented again
\* and the request was turned down
C28_UsedTokenTurnedDown ==
    /\ last.op = "verify-email"
    /\ last.arg.token = "tok1"
    /\ last.ok
    /\ last.val.status = 400
    /\ \E u \in Range(store.users) : u.id = "u1" /\ u.isVerified /\ u.verificationToken = ""
    /\ \E u \in Range(store.users) : u.id = "u2" /\ ~u.isVerified

\* ------------------------------------------------------------- registration
\* Register requests served side by side: each is a handler of two store
\* calls, GetUserByEmail and then CreateUser, and requests in flight stand
\* between the two.
MaxReqs == 2   \* requests in flight at a time

\* RegisterHandler up to `if _, ok := s.GetUserByEmail(req.Email); ok`: the
\* request is turned down, or goes on to hash the password
RegisterArrives ==
    /\ Up
    /\ Len(reqs) < MaxReqs
    /\ Len(store.users) + Len(reqs) < MaxRecords
    /\ \E email \in Emails, ok \in Drivers :
       \E found \in StoreGetUserByEmail(backend, store, email, ok) :
         /\ reqs' = IF found.err = Nil THEN reqs
                    ELSE Append(reqs, [h |-> "register", email |-> email])
         /\ last' = [op |-> "register", arg |-> [email |-> email], ok |-> ok,
                     err |-> Nil,
                     val |-> [status |-> IF found.err = Nil THEN 400 ELSE 0]]
    /\ UNCHANGED <<dbs, outs, main, once, loops, backend, store, clock, pc, batch, fails, hist>>

\* RegisterHandler from uuid.New() on: CreateUser, 201
RegisterCreates ==
    /\ \E i \in DOMAIN reqs, ok \in Drivers :
         LET u == [id |-> NewUuid({x.id : x \in Range(store.users)}), name |-> "Ann",
                   email |-> reqs[i].email, password |-> "hash1", isVerified |-> FALSE,
                   verificationToken |-> ""]
         IN /\ reqs[i].h = "register"
            /\ store' = StoreCreateUser(backend, store, u, ok).st
            /\ reqs' = RemoveAt(reqs, i)
            /\ last' = [op |-> "register", arg |-> [email |-> u.email], ok |-> ok,
                        err |-> Nil, val |-> [status |-> 201]]
    /\ UNCHANGED <<dbs, outs, main, once, loops, backend, clock, pc, batch, fails, hist>>

NextRegister == RegisterArrives \/ RegisterCreates \/ CallGetUserByEmail \/ Tick

SpecRegister == Init /\ [][NextRegister]_vars

\* C29 as stated: whatever the interleaving of Register requests, no two
\* stored users have the same email.
C29_EmailsAreUnique ==
    \A i, j \in DOMAIN store.users :
        i # j => store.users[i].email # store.users[j].email

\* ------------------------------------------------------------- the email fallback
\* POST /api/notifications/check-email-fallback beside the worker.  The
\* handler lists the stale unread notifications of the caller, looks the
\* caller up, and marks or emails what it listed; every store call is a step,
\* and the worker, verification and other requests run between the steps.
\* GetUnreadNotificationsOlderThanForUser is the listing of
\* GetUnreadNotificationsOlderThan narrowed to one owner.
MongoGetUnreadNotificationsOlderThanForUser(db, userID, duration, now, ok) ==
    LET r == MongoGetUnreadNotificationsOlderThan(db, duration, now, ok)
    IN [r EXCEPT !.val = SelectSeq(r.val, LAMBDA n : n.userId = userID)]

MemGetUnreadNotificationsOlderThanForUser(m, userID, duration) ==
    [st |-> m, err |-> Nil, val |-> <<>>]

StoreGetUnreadNotificationsOlderThanForUser(b, st, userID, duration, now, ok) ==
    IF b = "mongo" THEN MongoGetUnreadNotificationsOlderThanForUser(st, userID, duration, now, ok)
    ELSE MemGetUnreadNotificationsOlderThanForUser(st, userID, duration)

\* the request of an authenticated user arrives: the list call; an error
\* ends the request with 500
FallbackLists ==
    /\ Len(reqs) < MaxReqs
    /\ \E userID \in UserIds, ok \in Outcomes :
         LET r == StoreGetUnreadNotificationsOlderThanForUser(backend, store, userID, "1h",
                                                              clock, ok)
         IN /\ fails' = Charge(fails, ok)
            /\ reqs' = IF r.err # Nil THEN reqs
                       ELSE Append(reqs, [h |-> "fallback", user |-> userID, at |-> "user",
                                          batch |-> r.val])
    /\ UNCHANGED <<dbs, outs, last, main, once, loops, backend, store, clock, pc, batch, hist>>

\* where a request stands when it has a list to walk, or none
Walk(q, at) == IF q.batch = <<>> THEN <<>> ELSE <<[q EXCEPT !.at = at]>>

\* the request i without its first item: over when the list is used up
Rest(i) ==
    LET q == [reqs[i] EXCEPT !.batch = Tail(reqs[i].batch)]
    IN SubSeq(reqs, 1, i - 1) \o Walk(q, q.at) \o SubSeq(reqs, i + 1, Len(reqs))

\* GetUser(userID): 404 when it fails, the marking loop for an unverified
\* user, the sending loop for a verified one
FallbackUser ==
    /\ \E i \in DOMAIN reqs, ok \in Outcomes :
         LET q == reqs[i]
             u == StoreGetUser(backend, store, q.user, ok)
             next == IF u.err # Nil THEN <<>>
                     ELSE IF SkipsEmail(u.val) THEN Walk(q, "mark")
                     ELSE Walk(q, "send")
         IN /\ q.h = "fallback" /\ q.at = "user"
            /\ fails' = Charge(fails, ok)
            /\ reqs' = SubSeq(reqs, 1, i - 1) \o next \o SubSeq(reqs, i + 1, Len(reqs))
    /\ UNCHANGED <<dbs, outs, last, main, once, loops, backend, store, clock, pc, batch, hist>>

\* `for _, n := range notifications { s.MarkNotificationAsEmailed(n.ID) }`
FallbackMark ==
    /\ \E i \in DOMAIN reqs, ok \in Outcomes :
         LET n == Head(reqs[i].batch)
             m == StoreMarkNotificationAsEmailed(backend, store, n.id, ok)
         IN /\ reqs[i].h = "fallback" /\ reqs[i].at = "mark"
            /\ store' = m.st
            /\ fails' = Charge(fails, ok)
            /\ marked' = IF m.err = Nil THEN marked \cup {n.id} ELSE marked
            /\ reqs' = Rest(i)
    /\ UNCHANGED <<dbs, outs, last, main, once, loops, backend, clock, pc, batch, trace, retry,
                   sent, runs>>

\* the sending loop: SendNotificationEmail and, when it went out,
\* MarkNotificationAsEmailed
FallbackSend ==
    /\ \E i \in DOMAIN reqs, sendOk \in BOOLEAN, ok \in Outcomes :
         LET n == Head(reqs[i].batch)
             m == StoreMarkNotificationAsEmailed(backend, store, n.id, ok)
         IN /\ reqs[i].h = "fallback" /\ reqs[i].at = "send"
            /\ IF MarksAfterSend(sendOk)
               THEN /\ store' = m.st
                    /\ fails' = Charge(fails, ok)
                    /\ marked' = IF m.err = Nil THEN marked \cup {n.id} ELSE marked
               ELSE UNCHANGED <<store, fails, marked>>
            /\ sent' = IF sendOk THEN sent \cup {n.id} ELSE sent
            /\ retry' = IF sendOk THEN retry \ {n.id} ELSE retry \cup {n.id}
            /\ reqs' = Rest(i)
    /\ UNCHANGED <<dbs, outs, last, main, once, loops, backend, clock, pc, batch, trace, runs>>

UnverifiedUser ==
    [id |-> "u1", name |-> "Ann", email |-> "ann@example.com", password |-> "hash1",
     isVerified |-> FALSE, verificationToken |-> "tok1"]

InitFallback ==
    /\ backend \in Backends
    /\ \E due \in {[tasks |-> <<DueTask>>, events |-> <<>>],
                    [tasks |-> <<>>, events |-> <<DueEvent>>]} :
         store = [EmptyDB EXCEPT !.tasks = due.tasks, !.events = due.events,
                                 !.users = <<UnverifiedUser>>]
    /\ clock = 0
    /\ pc = "idle"
    /\ batch = <<>>
    /\ fails = 0
    /\ marked = {}
    /\ trace = <<>>
    /\ retry = {}
    /\ sent = {}
    /\ runs = [k \in Kinds |-> 0]
    /\ dbs = [b \in Backends |-> EmptyDB]
    /\ outs = NoCall
    /\ last = NoLast
    /\ Served

NextFallback ==
    \/ Tick
    \/ StartCycle
    \/ TasksList \/ TaskItem
    \/ EventsList \/ EventItem
    \/ StaleList \/ MailItem
    \/ VerifyEmail
    \/ FallbackLists \/ FallbackUser \/ FallbackMark \/ FallbackSend

SpecFallback == InitFallback /\ [][NextFallback]_vars


\* marked emailed though the Notifier never delivered it: its owner was
\* taken for unverified
MarkedUnsent == marked \ sent

\* a step that asks the Notifier to send notification id
SendStep(id) == id \in sent' \ sent \/ id \in retry' \ retry

\* a fallback request made its list call and goes on
FallbackListStep == Len(reqs') > Len(reqs)

\* C30 as stated: a notification that was marked emailed while its owner was
\* unverified is never sent to the Notifier afterwards, by the worker or by a
\* fallback request.
C30_MarkedUnsentNeverSent ==
    [][\A id \in MarkedUnsent : ~SendStep(id)]_vars

\* C30: a notification that was marked emailed while its owner was unverified
\* is in the list of no stale-unread scan and of no fallback request that
\* lists after the marking, and the worker and the fallback handler send
\* only what they listed: a send for it can come only from a scan or a
\* request that had listed it before it was marked.
C30_MarkedUnsentNeverListed ==
    [][/\ StaleListStep => BatchIds(batch') \cap MarkedUnsent = {}
       /\ FallbackListStep => BatchIds(reqs'[Len(reqs')].batch) \cap MarkedUnsent = {}
       /\ pc = "staleItem" => BatchIds(batch') \subseteq BatchIds(batch)
       /\ \A id \in MarkedUnsent :
            SendStep(id) =>
              \/ pc = "staleItem" /\ Head(batch).id = id
              \/ \E i \in DOMAIN reqs : reqs[i].at = "send" /\ Head(reqs[i].batch).id = id]_vars

\* C30, the case: a notification marked while its owner was unverified is
\* unread and older than the threshold, its owner is verified by now, and a
\* fallback request that listed since then holds nothing to send
C30_VerifiedLaterAndPassedBy ==
    /\ pc = "idle"
    /\ \E n \in Notifications :
          /\ n.id \in MarkedUnsent
          /\ n.emailed /\ ~n.read
          /\ n.createdAt + Second <= clock - Hour
          /\ OwnerVerified(n.id)
          /\ n.id \notin {e.id : e \in Handled}
    /\ reqs = <<>>
    /\ retry = {} /\ sent = {}
    /\ clock = MaxTime

=============================================================================
